---- MODULE Spec2Model ----
(***************************************************************************)
(* Ranking / popularity index engine of the store backend:                *)
(*   - ranking_index.RankingIndex (rolling 3-week counter + index),        *)
(*   - the weekly recalculation script and the section curator jobs.      *)
(***************************************************************************)
EXTENDS Integers, Sequences, FiniteSets, TLC

(***************************************************************************)
(* Entities.  Every owner slot references its own RankingIndex row; a row  *)
(* is named by the pair <<owner, slot>>.                                   *)
(***************************************************************************)
Products == {"p1", "p2"}
Catalogs == {"c1"}
SearchQueries == {"q1"}
ListingAttributes == {"la1", "la2", "la3"}

ProductSlots == {"popular", "sales", "often_search"}

RankingIds ==
    (Products \X ProductSlots)
        \cup ((Catalogs \cup SearchQueries \cup ListingAttributes) \X {"popular"})

\* The three rows of one product: the rows the method-level specification drives.
CoreRows == {"p1"} \X ProductSlots

(***************************************************************************)
(* Bounds of the model.                                                    *)
(***************************************************************************)
MaxCount == 2       \* largest first_week an increment may produce
MaxDebt == 1        \* an increment may not take first_week below -MaxDebt
MaxAmount == 2      \* largest count passed to index_counter_increment
MaxOps == 6         \* method calls per behaviour of the method-level specification

Amounts == (-1) .. MaxAmount

(***************************************************************************)
(* _index is a DecimalField with 5 decimal places: the stored value is an  *)
(* integer number of 10^-5 units.  The weights 0.5 / 0.3 / 0.2 are tenths. *)
(***************************************************************************)
DecimalPlaces == 5
WeightFirst == 5
WeightSecond == 3
WeightThird == 2

RECURSIVE Pow10(_)
Pow10(n) == IF n = 0 THEN 1 ELSE 10 * Pow10(n - 1)

\* The weights of the first and the second week exchanged.
MutWeightedIndexSwapped(c) ==
    (c.first_week * WeightSecond + c.second_week * WeightFirst
        + c.third_week * WeightThird) * Pow10(DecimalPlaces - 1)

\* The float sum first*0.5 + second*0.3 + third*0.2 saved into the decimal
\* column: for counters of this size the float is within 10^-15 of the exact
\* tenths value, and the column keeps 5 places, so the stored number is the
\* exact weighted sum.
WeightedIndex(c) ==
    (c.first_week * WeightFirst + c.second_week * WeightSecond
        + c.third_week * WeightThird) * Pow10(DecimalPlaces - 1)

\* A literal such as 1.5 or 0.45 in stored units: Decimal(whole, hundredths).
Decimal(whole, hundredths) ==
    whole * Pow10(DecimalPlaces) + hundredths * Pow10(DecimalPlaces - 2)

get_default_counter_dict == [first_week |-> 0, second_week |-> 0, third_week |-> 0]

\* RankingIndex.objects.create(): _index default 0, counter default dict.
create_ranking_index == [index |-> 0, index_counter |-> get_default_counter_dict]

VARIABLES
    ranking,    \* table ranking_index: row id -> [index, index_counter]
    hist,       \* per row: history since its last increment (see HistAfter*)
    ops,        \* number of calls made so far (bounds a behaviour)
    req,        \* HTTP requests in flight: worker -> [pc, row, count, loaded]
    sent,       \* per row: sum of the counts of the increment requests issued
    product,    \* table product: id -> [publish, quantity, price, discount_percent, tags]
    job,        \* the scheduled script in progress (see JobIdle)
    product_attribute,  \* table productattribute: product -> attribute -> values
    reviews,    \* table productreview: product -> number of its reviews
    product_in_shop,    \* table productinshop: product -> shops holding a row of it with quantity > 0
    product_day,        \* table productday: set of [product, show_date]
    today,      \* timezone.now().date(), as a day number
    call,       \* the last call of the catalog engine and what it returned
    index_table,    \* table rankingindex of the owners created later: pk -> row
    owner,      \* owners created later: slot -> pk of its RankingIndex row, 0 without owner
    catalog,    \* table catalog of the nodes created later: pk -> [object_class, slug, parent, name]
    txn,        \* one update_index() and one increment in progress on one row (see TxnIdle)
    order,      \* order placements in progress: worker -> [pc, product, amount, loaded]
    ordered     \* per product: units of the orders placed so far

rankingVars == <<ranking, hist>>
requestVars == <<req, sent>>
storeVars == <<product, job>>
tableVars == <<index_table, owner, catalog, txn, order, ordered>>
catalogVars ==
    <<product_attribute, reviews, product_in_shop, product_day, today, call, tableVars>>
vars == <<ranking, hist, ops, req, sent, product, job,
          product_attribute, reviews, product_in_shop, product_day, today, call,
          index_table, owner, catalog, txn, order, ordered>>

(***************************************************************************)
(* RankingIndex methods on one loaded row.                                 *)
(***************************************************************************)
\* The increment also copies first_week into second_week.
MutIncrementedRowRotates(row, count) ==
    [row EXCEPT !.index_counter.first_week = @ + count,
                !.index_counter.second_week = row.index_counter.first_week]

\* index_counter_increment: first_week += count, then save().
IncrementedRow(row, count) ==
    [row EXCEPT !.index_counter.first_week = @ + count]

\* The rotation forgets to reset first_week.
MutRotatedCounterNoReset(c) ==
    [first_week |-> c.first_week, second_week |-> c.first_week,
     third_week |-> c.second_week]

\* _update_index_counters: third <- second, second <- first, first <- 0.
RotatedCounter(c) ==
    [first_week |-> 0, second_week |-> c.first_week, third_week |-> c.second_week]

\* The counters are rotated before the index is computed from them.
MutUpdatedRowRotatesFirst(row) ==
    [index |-> WeightedIndex(RotatedCounter(row.index_counter)),
     index_counter |-> RotatedCounter(row.index_counter)]

\* update_index: index from the counters as loaded, save(), then rotate, save().
UpdatedRow(row) ==
    [index |-> WeightedIndex(row.index_counter),
     index_counter |-> RotatedCounter(row.index_counter)]

(***************************************************************************)
(* History of a row, kept for the claims about sequences of calls:         *)
(*   started - the last increment left the counters at (n, 0, 0),          *)
(*   n       - that first_week,                                            *)
(*   calls   - update_index calls since that increment, saturating at      *)
(*             MaxCalls (counted while started holds).                     *)
(***************************************************************************)
MaxCalls == 5

HistFresh == [started |-> FALSE, n |-> 0, calls |-> 0]

HistAfterIncrement(row) ==
    IF row.index_counter.second_week = 0 /\ row.index_counter.third_week = 0
    THEN [started |-> TRUE, n |-> row.index_counter.first_week, calls |-> 0]
    ELSE HistFresh

HistAfterUpdate(h) ==
    IF h.started /\ h.calls < MaxCalls THEN [h EXCEPT !.calls = @ + 1] ELSE h

(***************************************************************************)
(* Requests.  A web worker serves one request at a time; a request that    *)
(* increments a counter loads the RankingIndex row through the owner's     *)
(* one-to-one field, adds to first_week in memory and save()s the row.     *)
(***************************************************************************)
Workers == {"w1", "w2"}

RequestIdle == [pc |-> "idle", row |-> <<"p1", "popular">>, count |-> 0,
                loaded |-> create_ranking_index]

InitRequests ==
    /\ req = [w \in Workers |-> RequestIdle]
    /\ sent = [r \in RankingIds |-> 0]

(***************************************************************************)
(* Store data: products with their section tags, and the scheduled job.    *)
(***************************************************************************)
\* Two of the listing slugs of DISPLAY_CATEGORIES_SECTIONS, and one listing
\* that is not on the list.
DISPLAY_CATEGORIES_SECTIONS == {"televizory", "noutbuki"}
Listings == {"televizory", "aksessuary"}
BestsellerTag == "hit"
BestPriceTag == "luchshaya-cena"
PromoTag == "akcionnye-tovary"

InitialQuantity == 2    \* stock of a product when it is created
InitialPrice == 3000    \* price of a product when it is created

NewProduct(listing) ==
    [publish |-> TRUE, quantity |-> InitialQuantity, price |-> InitialPrice,
     discount_percent |-> 0, tags |-> {listing}]

NoRow == <<"none", "none">>

\* No script is running.  Besides the script and its position, the record
\* keeps what the claims about a run need to refer to:
\*   updated  - update_index calls of the current run, per row,
\*   failed   - the row whose update_index raised, if one did,
\*   audience - the products that were published when the run started,
\*   selected - the products the tagging query of the run returned,
\*   before   - the products holding the section tag when the run started,
\*   dirty    - product data changed since the tagging query of the run,
\*   prev     - the tagged set left by the previous run of the same script,
\*              valid when no product data changed since that run.
JobIdle ==
    [script |-> "none", pc |-> "idle",
     updated |-> [r \in RankingIds |-> 0],
     failed |-> NoRow,
     audience |-> {}, selected |-> {}, before |-> {},
     dirty |-> FALSE,
     prev |-> [valid |-> FALSE, tagged |-> {}]]

InitStore ==
    /\ product = [p \in Products |-> NewProduct("televizory")]
    /\ job = JobIdle

(***************************************************************************)
(* Catalog data: attributes and their values, the attributes configured    *)
(* for a listing, the shops, and the tables the catalog engine reads.      *)
(***************************************************************************)
Attributes == {"color", "diagonal", "size"}

\* Attribute.type
AttributeType(a) == IF a = "diagonal" THEN "NUM_RANGE" ELSE "SELECT"

\* AttributeValue rows, named by their slug.
AttributeValues == {"red", "blue", "32", "n-a"}

\* ListingAttribute rows: (listing, attribute) is unique.
ListingAttributeRow(la) ==
    CASE la = "la1" -> [listing |-> "televizory", attribute |-> "color"]
      [] la = "la2" -> [listing |-> "televizory", attribute |-> "diagonal"]
      [] la = "la3" -> [listing |-> "aksessuary", attribute |-> "color"]

\* listing.listing_attributes
ListingAttributesOf(listing) ==
    {la \in ListingAttributes : ListingAttributeRow(la).listing = listing}

CallIdle == [op |-> "none"]

\* Owners of RankingIndex rows that are created and deleted during a
\* behaviour: a product, a catalog node, a listing attribute and the search
\* queries of two texts.
SearchTexts == {"tv", "laptop"}
LaterOwners == {"p3", "c2", "la4"} \cup SearchTexts

SlotsOf(o) == IF o = "p3" THEN {o} \X ProductSlots ELSE {<<o, "popular">>}

LaterSlots == UNION {SlotsOf(o) : o \in LaterOwners}

MaxNodes == 2    \* catalog nodes created per behaviour

NodeIds == 1 .. MaxNodes

\* No row with the pk yet; parent 0 is a NULL parent.
NoNode == [object_class |-> "none", slug |-> <<"", 0>>, parent |-> 0, name |-> ""]

\* No update_index() and no increment of the pair has loaded its row.  start
\* is the row as it was when the first of the two loaded it.
TxnIdle ==
    [row |-> NoRow, start |-> create_ranking_index,
     job_pc |-> "idle", job_loaded |-> create_ranking_index,
     inc_pc |-> "idle", inc_loaded |-> create_ranking_index, count |-> 0]

OrderIdle == [pc |-> "idle", product |-> "p1", amount |-> 0, loaded |-> 0]

InitTables ==
    /\ index_table = <<>>
    /\ owner = [slot \in LaterSlots |-> 0]
    /\ catalog = [id \in NodeIds |-> NoNode]
    /\ txn = TxnIdle
    /\ order = [w \in Workers |-> OrderIdle]
    /\ ordered = [p \in Products |-> 0]

InitCatalog ==
    /\ product_attribute =
            [p \in Products |->
                [a \in Attributes |-> IF a = "diagonal" THEN {"32"} ELSE {}]]
    /\ reviews = [p \in Products |-> 0]
    /\ product_in_shop = [p \in Products |-> {}]
    /\ product_day = {}
    /\ today = 1
    /\ call = CallIdle

(***************************************************************************)
(* Method-level specification: any sequence of calls on the rows of one    *)
(* product, each call running alone (load, modify, save with no writer in  *)
(* between).                                                               *)
(***************************************************************************)
InitRanking ==
    /\ ranking = [r \in RankingIds |-> create_ranking_index]
    /\ hist = [r \in RankingIds |-> HistFresh]
    /\ ops = 0

Init ==
    /\ InitRanking
    /\ InitRequests
    /\ InitStore
    /\ InitCatalog
    /\ InitTables

index_counter_increment(r, count) ==
    /\ ops < MaxOps
    /\ ranking[r].index_counter.first_week + count <= MaxCount
    /\ ranking[r].index_counter.first_week + count >= -MaxDebt
    /\ ranking' = [ranking EXCEPT ![r] = IncrementedRow(@, count)]
    /\ hist' = [hist EXCEPT ![r] = HistAfterIncrement(ranking'[r])]
    /\ ops' = ops + 1
    /\ UNCHANGED <<requestVars, storeVars, catalogVars>>

update_index(r) ==
    /\ ops < MaxOps
    /\ ranking' = [ranking EXCEPT ![r] = UpdatedRow(@)]
    /\ hist' = [hist EXCEPT ![r] = HistAfterUpdate(@)]
    /\ ops' = ops + 1
    /\ UNCHANGED <<requestVars, storeVars, catalogVars>>

Next ==
    \/ \E r \in CoreRows, count \in Amounts : index_counter_increment(r, count)
    \/ \E r \in CoreRows : update_index(r)

Spec == Init /\ [][Next]_vars

(***************************************************************************)
(* Claims on the method-level specification.                               *)
(***************************************************************************)
Counter(r) == ranking[r].index_counter

\* C1: one update_index() call on a row with counters (f, s, t) stores
\* index = 0.5*f + 0.3*s + 0.2*t, computed from the counters as they were
\* before the rotation, and leaves the counters at (0, f, s).
C1_UpdateIndexFormula ==
    [][\A r \in RankingIds :
        update_index(r) =>
            /\ 10 * ranking'[r].index =
                    (5 * Counter(r).first_week + 3 * Counter(r).second_week
                        + 2 * Counter(r).third_week) * 100000
            /\ ranking'[r].index_counter =
                    [first_week |-> 0,
                     second_week |-> Counter(r).first_week,
                     third_week |-> Counter(r).second_week]]_vars

\* update_index has run on counters (2, 1, 1): index 1.5, counters (0, 2, 1).
C1_Witness ==
    \E r \in RankingIds :
        /\ ranking[r].index = Decimal(1, 50)
        /\ Counter(r) = [first_week |-> 0, second_week |-> 2, third_week |-> 1]

\* C2 (as claimed): from counters (N, 0, 0) and with no increment in between,
\* three update_index() calls leave (0, 0, N), a fourth leaves (0, 0, 0), and
\* every call after the fourth stores index 0.
C2_RotationAsClaimed ==
    \A r \in RankingIds :
        hist[r].started =>
            /\ hist[r].calls = 3 =>
                    Counter(r) = [first_week |-> 0, second_week |-> 0,
                                  third_week |-> hist[r].n]
            /\ hist[r].calls = 4 => Counter(r) = get_default_counter_dict
            /\ hist[r].calls >= 5 => ranking[r].index = 0

\* C2 (amended): from counters (N, 0, 0) and with no increment in between,
\* two update_index() calls leave (0, 0, N), a third leaves (0, 0, 0), and
\* every call after the third stores index 0.
C2_RotationComposition ==
    \A r \in RankingIds :
        hist[r].started =>
            /\ hist[r].calls = 2 =>
                    Counter(r) = [first_week |-> 0, second_week |-> 0,
                                  third_week |-> hist[r].n]
            /\ hist[r].calls = 3 => Counter(r) = get_default_counter_dict
            /\ hist[r].calls >= 4 => ranking[r].index = 0

\* A row incremented to (N, 0, 0) with N > 0 has seen five update_index calls.
C2_Witness ==
    \E r \in RankingIds :
        hist[r].started /\ hist[r].n > 0 /\ hist[r].calls >= 5

\* C4: index_counter_increment(count) adds count to first_week of that row and
\* changes nothing else, in that row or in any other row; second_week,
\* third_week and index of a row change only in an update_index() of that row.
C4_IncrementFrame ==
    [][/\ \A r \in RankingIds, count \in Amounts :
            index_counter_increment(r, count) =>
                /\ Counter(r)'.first_week = Counter(r).first_week + count
                /\ Counter(r)'.second_week = Counter(r).second_week
                /\ Counter(r)'.third_week = Counter(r).third_week
                /\ ranking'[r].index = ranking[r].index
                /\ \A o \in RankingIds \ {r} : ranking'[o] = ranking[o]
       /\ \A r \in RankingIds :
            (\/ Counter(r)'.second_week # Counter(r).second_week
             \/ Counter(r)'.third_week # Counter(r).third_week
             \/ ranking'[r].index # ranking[r].index) => update_index(r)]_vars

\* A row with a nonzero index and older counters was just incremented while
\* another index of the same product holds counts of its own.
C4_Witness ==
    \E r \in CoreRows, o \in CoreRows :
        /\ o # r
        /\ Counter(r).first_week > 0
        /\ Counter(r).second_week > 0
        /\ ranking[r].index > 0
        /\ Counter(o) # get_default_counter_dict

\* C5 (as claimed): in every reachable state the three counters of every row
\* are >= 0, whatever amounts index_counter_increment was called with.
C5_CountersNonNegative ==
    \A r \in RankingIds :
        /\ Counter(r).first_week >= 0
        /\ Counter(r).second_week >= 0
        /\ Counter(r).third_week >= 0

(***************************************************************************)
(* Concurrent requests: two workers serve increment requests on the rows   *)
(* of one product (product page views, search hits, orders).  The load of  *)
(* the row and its save() are separate database statements, so the other   *)
(* worker may run between them.                                            *)
(***************************************************************************)
RequestAmounts == 1 .. MaxAmount

\* instance.popular / product.sales / product.often_search: the row is read.
RequestLoad(w, r, count) ==
    /\ req[w].pc = "idle"
    /\ sent[r] + count <= MaxCount
    /\ req' = [req EXCEPT ![w] = [pc |-> "loaded", row |-> r, count |-> count,
                                  loaded |-> ranking[r]]]
    /\ sent' = [sent EXCEPT ![r] = @ + count]
    /\ UNCHANGED <<rankingVars, ops, storeVars, catalogVars>>

\* index_counter_increment on the loaded instance: save() writes every field
\* of the instance over the row.
RequestSave(w) ==
    /\ req[w].pc = "loaded"
    /\ ranking' = [ranking EXCEPT
                      ![req[w].row] = IncrementedRow(req[w].loaded, req[w].count)]
    /\ hist' = [hist EXCEPT ![req[w].row] = HistAfterIncrement(ranking'[req[w].row])]
    /\ req' = [req EXCEPT ![w] = RequestIdle]
    /\ UNCHANGED <<ops, sent, storeVars, catalogVars>>

NextConcurrent ==
    \/ \E w \in Workers, r \in CoreRows, count \in RequestAmounts :
            RequestLoad(w, r, count)
    \/ \E w \in Workers : RequestSave(w)

SpecConcurrent == Init /\ [][NextConcurrent]_vars

\* C6 (as claimed): no increment is lost under concurrent requests: once the
\* requests on a row have all saved, first_week of the row equals its initial
\* value (0) plus the sum of the counts of the requests.
C6_NoLostUpdate ==
    \A r \in RankingIds :
        (\A w \in Workers : ~(req[w].pc = "loaded" /\ req[w].row = r)) =>
            Counter(r).first_week = sent[r]

(***************************************************************************)
(* Scheduled scripts.  A script is a sequence of batch functions; each     *)
(* batch is one step (its queryset is evaluated and iterated in one go),   *)
(* and requests may be served between two steps.                           *)
(***************************************************************************)
TopLimit == 1       \* stands for the slice [:100] of the section queries
MaxViews == 3       \* page views of one product within one period
MaxRequests == 4    \* page views, orders and product edits per behaviour

\* scripts/everyweek.py run(), update_bestsellers_products() on its own and
\* update_best_prices_products() on its own.
ScriptSteps(script) ==
    CASE script = "everyweek" ->
            <<"bestsellers_clear", "bestsellers_tag", "products_popular",
              "products_often_search", "catalogs", "listing_attributes",
              "search_queries">>
      [] script = "bestsellers" -> <<"bestsellers_clear", "bestsellers_tag">>
      [] script = "best_prices" -> <<"best_prices_clear", "best_prices_tag">>
      [] script = "promo" -> <<"promo_clear", "promo_tag">>
      [] script = "products_day" -> <<"products_day_clean", "products_day_create">>

NextPc(script, pc) ==
    LET steps == ScriptSteps(script)
        i == CHOOSE k \in 1 .. Len(steps) : steps[k] = pc
    IN  IF i = Len(steps) THEN "done" ELSE steps[i + 1]

JobRunning == job.pc \notin {"idle", "done", "aborted"}

SectionTag(script) ==
    CASE script = "best_prices" -> BestPriceTag
      [] script = "promo" -> PromoTag
      [] OTHER -> BestsellerTag

Tagged(tag) == {p \in Products : tag \in product[p].tags}

\* Product.objects.filter(publish=True)
Published == {p \in Products : product[p].publish}

StartScript(script) ==
    /\ ~JobRunning
    /\ job' = [script |-> script,
               pc |-> ScriptSteps(script)[1],
               updated |-> [r \in RankingIds |-> 0],
               failed |-> NoRow,
               audience |-> Published,
               selected |-> {},
               before |-> Tagged(SectionTag(script)),
               dirty |-> FALSE,
               prev |-> [valid |-> job.pc = "done" /\ job.script = script
                                      /\ ~job.dirty,
                         tagged |-> Tagged(SectionTag(script))]]
    /\ UNCHANGED <<rankingVars, ops, requestVars, product, catalogVars>>

\* update_products_search_often_indexes rotates popular instead of often_search.
MutBatchRowsPopularTwice(step) ==
    CASE step = "bestsellers_clear" -> Published \X {"sales"}
      [] step = "products_popular" -> Published \X {"popular"}
      [] step = "products_often_search" -> Published \X {"popular"}
      [] step = "catalogs" -> Catalogs \X {"popular"}
      [] step = "listing_attributes" -> ListingAttributes \X {"popular"}
      [] step = "search_queries" -> SearchQueries \X {"popular"}

\* The rows a batch function calls update_index() on.
BatchRows(step) ==
    CASE step = "bestsellers_clear" -> Published \X {"sales"}
      [] step = "products_popular" -> Published \X {"popular"}
      [] step = "products_often_search" -> Published \X {"often_search"}
      [] step = "catalogs" -> Catalogs \X {"popular"}
      [] step = "listing_attributes" -> ListingAttributes \X {"popular"}
      [] step = "search_queries" -> SearchQueries \X {"popular"}

IndexBatchSteps ==
    {"bestsellers_clear", "products_popular", "products_often_search",
     "catalogs", "listing_attributes", "search_queries"}

\* update_index() on each row of rows; in the clearing loop of
\* update_bestsellers_products the bestseller tag of the product is removed
\* in the same iteration.
UpdateRows(step, rows) ==
    /\ ranking' = [r \in RankingIds |->
                      IF r \in rows THEN UpdatedRow(ranking[r]) ELSE ranking[r]]
    /\ hist' = [r \in RankingIds |->
                   IF r \in rows THEN HistAfterUpdate(hist[r]) ELSE hist[r]]
    /\ product' = [p \in Products |->
                      IF step = "bestsellers_clear" /\ <<p, "sales">> \in rows
                      THEN [product[p] EXCEPT !.tags = @ \ {BestsellerTag}]
                      ELSE product[p]]

UpdatedCount(rows) ==
    [r \in RankingIds |-> IF r \in rows THEN job.updated[r] + 1 ELSE job.updated[r]]

\* A batch function runs to its end.
RunIndexBatch(step) ==
    /\ job.pc = step
    /\ UpdateRows(step, BatchRows(step))
    /\ job' = [job EXCEPT !.pc = NextPc(job.script, step),
                          !.updated = UpdatedCount(BatchRows(step))]
    /\ UNCHANGED <<ops, requestVars, catalogVars>>

update_bestsellers_products_clear == RunIndexBatch("bestsellers_clear")
update_products_popularity_indexes == RunIndexBatch("products_popular")
update_products_search_often_indexes == RunIndexBatch("products_often_search")
update_catalogs_popularity_indexes == RunIndexBatch("catalogs")
update_listings_attributes_popularity_indexes == RunIndexBatch("listing_attributes")
update_search_queries_popularity_indexes == RunIndexBatch("search_queries")

\* update_index() raises for the row failed (a database error on save(), a
\* value the decimal column rejects) after the loop has handled the rows of
\* handled.  No function of the scripts catches an exception, so it leaves
\* the batch function and run(): the script stops there.
BatchFails(failed, handled) ==
    /\ job.pc \in IndexBatchSteps
    /\ failed \in BatchRows(job.pc)
    /\ handled \subseteq BatchRows(job.pc) \ {failed}
    /\ UpdateRows(job.pc, handled)
    /\ job' = [job EXCEPT !.pc = "aborted", !.failed = failed,
                          !.updated = UpdatedCount(handled)]
    /\ UNCHANGED <<ops, requestVars, catalogVars>>

(***************************************************************************)
(* Section queries.  order_by(key)[:limit] returns the limit rows with the *)
(* largest key; which of several rows with an equal key it returns is up   *)
(* to the database.                                                        *)
(***************************************************************************)
TopSelections(eligible, key, limit) ==
    {S \in SUBSET eligible :
        /\ Cardinality(S) = IF Cardinality(eligible) < limit
                            THEN Cardinality(eligible) ELSE limit
        /\ \A a \in S, b \in eligible \ S : key[a] >= key[b]}

SalesIndex == [p \in Products |-> ranking[<<p, "sales">>].index]
DiscountPercent == [p \in Products |-> product[p].discount_percent]

\* The query without its quantity__gte=1 condition.
MutBestsellerCandidatesNoStock ==
    {p \in Products :
        /\ product[p].publish
        /\ product[p].tags \cap DISPLAY_CATEGORIES_SECTIONS # {}
        /\ SalesIndex[p] # 0}

\* filter(publish=True, quantity__gte=1, _tags__slug__in=...).exclude(sales___index=0)
BestsellerCandidates ==
    {p \in Products :
        /\ product[p].publish
        /\ product[p].quantity >= 1
        /\ product[p].tags \cap DISPLAY_CATEGORIES_SECTIONS # {}
        /\ SalesIndex[p] # 0}

\* filter(publish=True, quantity__gte=1, _tags__slug__in=..., discount_percent__gt=0)
BestPriceCandidates ==
    {p \in Products :
        /\ product[p].publish
        /\ product[p].quantity >= 1
        /\ product[p].tags \cap DISPLAY_CATEGORIES_SECTIONS # {}
        /\ product[p].discount_percent > 0}

AddTag(tag, chosen) ==
    [p \in Products |->
        IF p \in chosen THEN [product[p] EXCEPT !.tags = @ \cup {tag}] ELSE product[p]]

\* The clearing loop stops after its first product.
MutRemoveTagFirstOnly(tag, chosen) ==
    [p \in Products |->
        IF p \in chosen /\ p = (CHOOSE first \in chosen : TRUE)
        THEN [product[p] EXCEPT !.tags = @ \ {tag}] ELSE product[p]]

RemoveTag(tag, chosen) ==
    [p \in Products |->
        IF p \in chosen THEN [product[p] EXCEPT !.tags = @ \ {tag}] ELSE product[p]]

\* Second half of update_bestsellers_products: the query and the tagging loop.
update_bestsellers_products_tag ==
    /\ job.pc = "bestsellers_tag"
    /\ \E chosen \in TopSelections(BestsellerCandidates, SalesIndex, TopLimit) :
        /\ product' = AddTag(BestsellerTag, chosen)
        /\ job' = [job EXCEPT !.pc = NextPc(job.script, "bestsellers_tag"),
                              !.selected = chosen, !.dirty = FALSE]
    /\ UNCHANGED <<rankingVars, ops, requestVars, catalogVars>>

\* First half of update_best_prices_products: the tag is removed from every
\* published product.
update_best_prices_products_clear ==
    /\ job.pc = "best_prices_clear"
    /\ product' = RemoveTag(BestPriceTag, Published)
    /\ job' = [job EXCEPT !.pc = NextPc(job.script, "best_prices_clear")]
    /\ UNCHANGED <<rankingVars, ops, requestVars, catalogVars>>

\* Second half of update_best_prices_products: the query and the tagging loop.
update_best_prices_products_tag ==
    /\ job.pc = "best_prices_tag"
    /\ \E chosen \in TopSelections(BestPriceCandidates, DiscountPercent, TopLimit) :
        /\ product' = AddTag(BestPriceTag, chosen)
        /\ job' = [job EXCEPT !.pc = NextPc(job.script, "best_prices_tag"),
                              !.selected = chosen, !.dirty = FALSE]
    /\ UNCHANGED <<rankingVars, ops, requestVars, catalogVars>>

(***************************************************************************)
(* Requests that change what the scripts read.                             *)
(***************************************************************************)
MaxDiscount == 2    \* discount_percent of a product is 0 .. MaxDiscount

DataChanged == [job EXCEPT !.dirty = TRUE, !.prev.valid = FALSE]

ListingOf(p) == CHOOSE l \in Listings : l \in product[p].tags

\* ProductViewSet.retrieve: a published product is looked up by slug and its
\* popular index is incremented by the default count, 1.
ProductRetrieve(p) ==
    /\ ops < MaxRequests
    /\ product[p].publish
    /\ Counter(<<p, "popular">>).first_week < MaxViews
    /\ ranking' = [ranking EXCEPT ![<<p, "popular">>] = IncrementedRow(@, 1)]
    /\ hist' = [hist EXCEPT
                   ![<<p, "popular">>] = HistAfterIncrement(ranking'[<<p, "popular">>])]
    /\ ops' = ops + 1
    /\ UNCHANGED <<requestVars, storeVars, catalogVars>>

\* reduce_quantity_for_product: quantity = max(quantity - amount, 0).
ReducedQuantity(quantity, amount) ==
    IF quantity - amount > 0 THEN quantity - amount ELSE 0

\* CreateNewOrderByOneClickSerializer.create: the product must be published
\* and in stock; its quantity is reduced by 1 and its sales index is
\* incremented by the default count, 1.
CreateNewOrderByOneClick(p) ==
    /\ ops < MaxRequests
    /\ product[p].publish
    /\ product[p].quantity >= 1
    /\ product' = [product EXCEPT ![p].quantity = ReducedQuantity(@, 1)]
    /\ ranking' = [ranking EXCEPT ![<<p, "sales">>] = IncrementedRow(@, 1)]
    /\ hist' = [hist EXCEPT
                   ![<<p, "sales">>] = HistAfterIncrement(ranking'[<<p, "sales">>])]
    /\ job' = DataChanged
    /\ ops' = ops + 1
    /\ UNCHANGED <<requestVars, catalogVars>>

\* product._tags.set([listing, brand] + other_tags) of update_product.  A
\* data with brand and other_tags names all the tags; a data without them
\* resubmits the tags the product has besides its listing.
DataTags(p, data) ==
    IF "other_tags" \in DOMAIN data
    THEN {data.listing, data.brand} \cup data.other_tags
    ELSE {data.listing} \cup (product[p].tags \ Listings)

\* update_product: publish, price and discount_percent are taken from the data,
\* quantity too when the data has one (product_data.get("quantity",
\* product.quantity)), the tags are set to the listing of the data plus the other tags of the data
\* (the data resubmits the product's section tags).  Product edits are made
\* while no script is running.
update_product(p, data) ==
    /\ ops < MaxRequests
    /\ ~JobRunning
    /\ product' = [product EXCEPT
                      ![p] = [publish |-> data.publish,
                              quantity |-> IF "quantity" \in DOMAIN data
                                           THEN data.quantity
                                           ELSE product[p].quantity,
                              price |-> data.price,
                              discount_percent |-> data.discount_percent,
                              tags |-> DataTags(p, data)]]
    /\ product'[p] # product[p]
    /\ job' = DataChanged
    /\ ops' = ops + 1
    /\ UNCHANGED <<rankingVars, requestVars, catalogVars>>

(***************************************************************************)
(* The weekly script, with product page views between its steps and        *)
(* products being published and unpublished between its runs.              *)
(***************************************************************************)
PublishData(p) ==
    {[publish |-> b, price |-> product[p].price,
      discount_percent |-> product[p].discount_percent,
      listing |-> ListingOf(p)] : b \in BOOLEAN}

NextWeekly ==
    \/ StartScript("everyweek")
    \/ update_bestsellers_products_clear
    \/ update_bestsellers_products_tag
    \/ update_products_popularity_indexes
    \/ update_products_search_often_indexes
    \/ update_catalogs_popularity_indexes
    \/ update_listings_attributes_popularity_indexes
    \/ update_search_queries_popularity_indexes
    \/ /\ job.pc \in IndexBatchSteps
       /\ \E failed \in BatchRows(job.pc) :
            \E handled \in SUBSET (BatchRows(job.pc) \ {failed}) :
                BatchFails(failed, handled)
    \/ \E p \in Products : ProductRetrieve(p)
    \/ \E p \in Products : \E data \in PublishData(p) : update_product(p, data)

SpecWeekly == Init /\ [][NextWeekly]_vars

Popular(p) == <<p, "popular">>

\* C3 (as claimed): a product whose popular counter received 3 page views in
\* one period has index 1.5 after the first weekly run and index 0.45 after
\* the second; the runs after that take its counters through (0, 0, 3) to
\* (0, 0, 0).
C3_DecayAsClaimed ==
    \A p \in Products :
        (hist[Popular(p)].started /\ hist[Popular(p)].n = 3) =>
            /\ hist[Popular(p)].calls = 1 => ranking[Popular(p)].index = Decimal(1, 50)
            /\ hist[Popular(p)].calls = 2 => ranking[Popular(p)].index = Decimal(0, 45)

\* C3 (amended): such a product has index 1.5 and counters (0, 3, 0) after the
\* first weekly run that rotates it, index 0.9 (3 * 0.3) and counters
\* (0, 0, 3) after the second, and counters (0, 0, 0) after the third.
C3_EndToEndDecay ==
    \A p \in Products :
        (hist[Popular(p)].started /\ hist[Popular(p)].n = 3) =>
            /\ hist[Popular(p)].calls = 1 =>
                    /\ ranking[Popular(p)].index = Decimal(1, 50)
                    /\ Counter(Popular(p)) =
                            [first_week |-> 0, second_week |-> 3, third_week |-> 0]
            /\ hist[Popular(p)].calls = 2 =>
                    /\ ranking[Popular(p)].index = Decimal(0, 90)
                    /\ Counter(Popular(p)) =
                            [first_week |-> 0, second_week |-> 0, third_week |-> 3]
            /\ hist[Popular(p)].calls = 3 =>
                    Counter(Popular(p)) = get_default_counter_dict

\* A product viewed 3 times in one period has been through three weekly runs.
C3_Witness ==
    \E p \in Products :
        /\ hist[Popular(p)].started
        /\ hist[Popular(p)].n = 3
        /\ hist[Popular(p)].calls = 3
        /\ job.script = "everyweek"
        /\ job.pc = "done"

WeeklyDone == job.script = "everyweek" /\ job.pc = "done"

C8_BatchContinues ==
    (job.script = "everyweek" /\ job.pc \in {"done", "aborted"}
        /\ job.failed # NoRow) =>
        \A r \in RankingIds \ {job.failed} :
            (r[1] \in Products => r[1] \in job.audience) => job.updated[r] = 1

(***************************************************************************)
(* update_bestsellers_products() with one-click orders between its halves  *)
(* and product edits between its runs.                                     *)
(***************************************************************************)
ListingData(p) ==
    {[publish |-> b, price |-> product[p].price,
      discount_percent |-> product[p].discount_percent,
      listing |-> l] : b \in BOOLEAN, l \in Listings}

NextBestsellers ==
    \/ StartScript("bestsellers")
    \/ update_bestsellers_products_clear
    \/ update_bestsellers_products_tag
    \/ \E p \in Products : CreateNewOrderByOneClick(p)
    \/ \E p \in Products : \E data \in ListingData(p) : update_product(p, data)

SpecBestsellers == Init /\ [][NextBestsellers]_vars

\* The run has completed and no product data changed since its query.
BestsellersDone == job.script = "bestsellers" /\ job.pc = "done" /\ ~job.dirty

IsBestsellerCandidate(p) ==
    /\ product[p].publish
    /\ product[p].quantity >= 1
    /\ \E slug \in DISPLAY_CATEGORIES_SECTIONS : slug \in product[p].tags
    /\ ranking[<<p, "sales">>].index # 0

\* The selection of the run is the query's to make: the TopLimit candidates
\* with the highest sales index, all of them when there are fewer.
SelectionIsTop ==
    LET candidates == {p \in Products : IsBestsellerCandidate(p)}
    IN  /\ job.selected \subseteq candidates
        /\ Cardinality(job.selected) <= TopLimit
        /\ Cardinality(job.selected) < TopLimit => job.selected = candidates
        /\ \A a \in job.selected, b \in candidates \ job.selected :
                ranking[<<a, "sales">>].index >= ranking[<<b, "sales">>].index

PriceData(p) ==
    {[publish |-> b, price |-> product[p].price, discount_percent |-> d,
      listing |-> l] :
        b \in BOOLEAN, d \in 0 .. MaxDiscount, l \in Listings}

NextBestPrices ==
    \/ StartScript("best_prices")
    \/ update_best_prices_products_clear
    \/ update_best_prices_products_tag
    \/ \E p \in Products : \E data \in PriceData(p) : update_product(p, data)

SpecBestPrices == Init /\ [][NextBestPrices]_vars

\* C10 (as claimed): a second run of update_best_prices_products() with no
\* data change since the first leaves the same products tagged as the first
\* run did, also when products at the cut-off have equal discount_percent.
C10_BestPriceIdempotent ==
    (job.script = "best_prices" /\ job.pc = "done" /\ job.prev.valid) =>
        Tagged(BestPriceTag) = job.prev.tagged

(***************************************************************************)
(* set_promo_tag() with orders between its halves and product edits        *)
(* between its runs.                                                       *)
(***************************************************************************)
\* First loop of set_promo_tag: the tag is removed from every published
\* product.
set_promo_tag_clear ==
    /\ job.pc = "promo_clear"
    /\ product' = RemoveTag(PromoTag, Published)
    /\ job' = [job EXCEPT !.pc = NextPc(job.script, "promo_clear")]
    /\ UNCHANGED <<rankingVars, ops, requestVars, catalogVars>>

\* Product.objects.exclude(discount_percent=0)
Discounted == {p \in Products : product[p].discount_percent # 0}

\* Second loop of set_promo_tag: the tag is added to every product with a
\* nonzero discount_percent.
set_promo_tag_tag ==
    /\ job.pc = "promo_tag"
    /\ product' = AddTag(PromoTag, Discounted)
    /\ job' = [job EXCEPT !.pc = NextPc(job.script, "promo_tag"),
                          !.selected = Discounted, !.dirty = FALSE]
    /\ UNCHANGED <<rankingVars, ops, requestVars, catalogVars>>

NextPromo ==
    \/ StartScript("promo")
    \/ set_promo_tag_clear
    \/ set_promo_tag_tag
    \/ \E p \in Products : CreateNewOrderByOneClick(p)
    \/ \E p \in Products : \E data \in PriceData(p) : update_product(p, data)

SpecPromo == Init /\ [][NextPromo]_vars

\* C11 (as claimed): after set_promo_tag() completes, a product carries the
\* promo tag if and only if its discount_percent is nonzero, whatever its
\* stock, its publish flag and its tags before the run.
C11_PromoTagIffDiscounted ==
    (job.script = "promo" /\ job.pc = "done" /\ ~job.dirty) =>
        \A p \in Products :
            (PromoTag \in product[p].tags) <=> product[p].discount_percent # 0

(***************************************************************************)
(* set_products_day_today() with orders between its halves, and product    *)
(* edits and the change of the date between its runs.                      *)
(***************************************************************************)
\* Two of the listing slugs of PRODUCT_DAY_CATEGORIES; "aksessuary" is not on
\* the list.
PRODUCT_DAY_CATEGORIES == {"televizory", "noutbuki"}

ProductDayMinPrice == 3000  \* price__gte=3000
DayLimit == 1       \* stands for the slice [:10] of the product-of-the-day query
MaxDays == 2        \* the date takes the values 1 .. MaxDays

Prices == {ProductDayMinPrice - 1, ProductDayMinPrice}

Quantity == [p \in Products |-> product[p].quantity]

\* The query without its price__gte=3000 condition.
MutProductDayCandidatesAnyPrice ==
    {p \in Products :
        /\ product[p].publish
        /\ product[p].quantity >= 1
        /\ product[p].tags \cap PRODUCT_DAY_CATEGORIES # {}}

\* filter(publish=True, quantity__gte=1, price__gte=3000, _tags__slug__in=...)
ProductDayCandidates ==
    {p \in Products :
        /\ product[p].publish
        /\ product[p].quantity >= 1
        /\ product[p].price >= ProductDayMinPrice
        /\ product[p].tags \cap PRODUCT_DAY_CATEGORIES # {}}

\* ProductDay.clean_products_day(): every record is deleted.  The queryset
\* built before it is lazy: the query runs when the loop starts.
clean_products_day ==
    /\ job.pc = "products_day_clean"
    /\ product_day' = {}
    /\ job' = [job EXCEPT !.pc = NextPc(job.script, "products_day_clean")]
    /\ UNCHANGED <<rankingVars, ops, requestVars, product, product_attribute,
                   reviews, product_in_shop, today, tableVars, call>>

\* create_product_day(product_id, dt): the product is read again and must be
\* published and in stock; the record carries dt.date().
create_product_day(p, date) == [product |-> p, show_date |-> date]

\* The loop of set_products_day_today: the query is evaluated and one record
\* is created per product it returned.
set_products_day_today_create ==
    /\ job.pc = "products_day_create"
    /\ \E chosen \in TopSelections(ProductDayCandidates, Quantity, DayLimit) :
        /\ \A p \in chosen : product[p].publish /\ product[p].quantity # 0
        /\ product_day' = product_day \cup {create_product_day(p, today) : p \in chosen}
        /\ job' = [job EXCEPT !.pc = NextPc(job.script, "products_day_create"),
                              !.selected = chosen, !.dirty = FALSE]
    /\ UNCHANGED <<rankingVars, ops, requestVars, product, product_attribute,
                   reviews, product_in_shop, today, tableVars, call>>

\* The date changes between two runs of the daily script.
NextDay ==
    /\ ~JobRunning
    /\ today < MaxDays
    /\ today' = today + 1
    /\ job' = DataChanged
    /\ UNCHANGED <<rankingVars, ops, requestVars, product, product_attribute,
                   reviews, product_in_shop, product_day, call, tableVars>>

DayData(p) ==
    {[publish |-> b, price |-> c, discount_percent |-> product[p].discount_percent,
      listing |-> l] : b \in BOOLEAN, c \in Prices, l \in Listings}

NextProductsDay ==
    \/ StartScript("products_day")
    \/ clean_products_day
    \/ set_products_day_today_create
    \/ NextDay
    \/ \E p \in Products : CreateNewOrderByOneClick(p)
    \/ \E p \in Products : \E data \in DayData(p) : update_product(p, data)

SpecProductsDay == Init /\ [][NextProductsDay]_vars

\* The run has completed, and neither the product data nor the date changed
\* since its query.
ProductsDayDone == job.script = "products_day" /\ job.pc = "done" /\ ~job.dirty

Smaller(a, b) == IF a < b THEN a ELSE b

\* What a completed run leaves, for a given set of eligible products: the
\* records are one per selected product and dated today (so every older
\* record is gone), there are min(limit, number of eligible) of them, each
\* recorded product is published, priced >= 3000 and tagged with an
\* allow-listed category, and no eligible product left out has a higher
\* quantity than a recorded one.
ProductsDayRecords(eligible) ==
    /\ product_day = {[product |-> p, show_date |-> today] : p \in job.selected}
    /\ Cardinality(product_day) = Smaller(DayLimit, Cardinality(eligible))
    /\ \A r \in product_day :
            /\ product[r.product].publish
            /\ product[r.product].price >= 3000
            /\ \E slug \in PRODUCT_DAY_CATEGORIES : slug \in product[r.product].tags
    /\ \A a \in job.selected, b \in eligible \ job.selected :
            product[a].quantity >= product[b].quantity

\* C12 (as claimed): after set_products_day_today() the records are as
\* described, the eligible products being the published products priced
\* >= 3000 that carry an allow-listed category.
C12_ProductsDayAsClaimed ==
    ProductsDayDone =>
        ProductsDayRecords({p \in Products :
            /\ product[p].publish
            /\ product[p].price >= 3000
            /\ \E slug \in PRODUCT_DAY_CATEGORIES : slug \in product[p].tags})

\* C12 (amended): after set_products_day_today() the records are as
\* described, the eligible products being the published products in stock
\* (quantity >= 1) priced >= 3000 that carry an allow-listed category.
C12_ProductsDayRecomputed ==
    ProductsDayDone =>
        ProductsDayRecords({p \in Products :
            /\ product[p].publish
            /\ product[p].quantity >= 1
            /\ product[p].price >= 3000
            /\ \E slug \in PRODUCT_DAY_CATEGORIES : slug \in product[p].tags})

\* A run on the second day has recorded one product and left out another
\* eligible product with a lower quantity.
C12_Witness ==
    /\ ProductsDayDone
    /\ today = 2
    /\ \E a \in job.selected, b \in ProductDayCandidates \ job.selected :
            product[a].quantity > product[b].quantity

(***************************************************************************)
(* The filter engine: get_products_by_filter(products, listing, tags_slugs, *)
(* prices, attributes).  The views pass the published products.  A list of *)
(* tags or prices is a set here (the order of an OR does not matter); the  *)
(* attributes dict is the sequence of its items, in insertion order.       *)
(***************************************************************************)
MaxFilterUses == 2      \* largest first_week a filter call may produce

\* A filter value: the slug of an AttributeValue, or a {"min", "max"} dict.
Slug(slug) == [kind |-> "slug", slug |-> slug, min |-> 0, max |-> 0]
Range(min, max) == [kind |-> "range", slug |-> "", min |-> min, max |-> max]

\* products.filter(_tags=listing)
ListingProducts(products, listing) ==
    {p \in products : listing \in product[p].tags}

\* The OR of Q(_tags__slug=tag_slug); no narrowing when no tag is given.
TagFiltered(products, tags_slugs) ==
    IF tags_slugs = {} THEN products
    ELSE {p \in products : \E tag_slug \in tags_slugs : tag_slug \in product[p].tags}

\* The annotation F("price") * (100 - F("discount_percent")) / 100, as a
\* number of hundredths: the database divides exactly.
AnnotatedDiscountedPrice(p) == product[p].price * (100 - product[p].discount_percent)

\* The OR of the ranges is taken over the price, not the discounted price.
MutPriceFilteredUndiscounted(products, prices) ==
    IF prices = {} THEN products
    ELSE {p \in products :
            \E range_value \in prices :
                /\ product[p].price * 100 >= range_value.min * 100
                /\ product[p].price * 100 <= range_value.max * 100}

\* The OR of Q(_discounted_price__gte=min, _discounted_price__lte=max); no
\* narrowing when no range is given.  The bounds of a range are whole
\* numbers, which the conversion of a float bound to a decimal keeps exact.
PriceFiltered(products, prices) ==
    IF prices = {} THEN products
    ELSE {p \in products :
            \E range_value \in prices :
                /\ AnnotatedDiscountedPrice(p) >= range_value.min * 100
                /\ AnnotatedDiscountedPrice(p) <= range_value.max * 100}

NoNumber == -1

\* The numeric_value annotation: the text of a value that matches
\* ^\d+(\.\d+)?$ is cast to a float, any other text gives NULL.
NumericValue(value) ==
    IF value = "32" THEN 32 ELSE NoNumber

\* One Q of qs_values, on the ProductAttribute row of the product for the
\* attribute: a range is compared with the numeric value when the attribute
\* is NUM_RANGE, anything else is compared with the slugs of the values.
ValueMatches(p, attribute, value) ==
    IF AttributeType(attribute) = "NUM_RANGE" /\ value.kind = "range"
    THEN \E v \in product_attribute[p][attribute] :
            /\ NumericValue(v) # NoNumber
            /\ NumericValue(v) >= value.min
            /\ NumericValue(v) <= value.max
    ELSE value.kind = "slug" /\ value.slug \in product_attribute[p][attribute]

\* The values of one attribute are AND-ed.
MutAttributeFilteredAll(products, attribute, values) ==
    IF values = {} THEN products
    ELSE {p \in products : \A value \in values : ValueMatches(p, attribute, value)}

\* products.filter(id__in=products_for_filter.filter(qs_values)): the OR of
\* the values of one attribute; an empty Q does not narrow.
AttributeFiltered(products, attribute, values) ==
    IF values = {} THEN products
    ELSE {p \in products : \E value \in values : ValueMatches(p, attribute, value)}

\* The ListingAttribute rows are looked up by the attribute alone.
MutListingAttributeForAnyListing(listing, attribute) ==
    {la \in ListingAttributes : ListingAttributeRow(la).attribute = attribute}

\* la_by_attr_id: the ListingAttribute rows of the listing for an attribute.
ListingAttributeFor(listing, attribute) ==
    {la \in ListingAttributesOf(listing) : ListingAttributeRow(la).attribute = attribute}

\* The loop over attributes.items().  all_attributes_dict[attribute_slug] and
\* la_by_attr_id[attribute.id] raise KeyError for a slug without an Attribute
\* row and for an attribute without a ListingAttribute row of the listing;
\* the increments made by the earlier iterations are already saved.
RECURSIVE FilterByAttributes(_, _, _, _)
FilterByAttributes(products, rows, listing, attributes) ==
    IF attributes = <<>>
    THEN [error |-> "none", products |-> products, ranking |-> rows]
    ELSE LET attribute_slug == Head(attributes).slug
             values == Head(attributes).values
         IN  IF \/ attribute_slug \notin Attributes
                \/ ListingAttributeFor(listing, attribute_slug) = {}
             THEN [error |-> "KeyError", products |-> {}, ranking |-> rows]
             ELSE LET listing_attribute ==
                          CHOOSE la \in ListingAttributeFor(listing, attribute_slug) : TRUE
                  IN  FilterByAttributes(
                          AttributeFiltered(products, attribute_slug, values),
                          [rows EXCEPT ![<<listing_attribute, "popular">>] =
                                          IncrementedRow(@, 1)],
                          listing, Tail(attributes))

\* What one call returns and the table ranking_index it leaves.
FilterOutcome(products, listing, tags_slugs, prices, attributes) ==
    FilterByAttributes(
        PriceFiltered(TagFiltered(ListingProducts(products, listing), tags_slugs),
                      prices),
        ranking, listing, attributes)

\* A call repeats the one before it when it has the same arguments and the
\* one before it returned.
SameCall(listing, tags_slugs, prices, attributes) ==
    /\ call.op = "get_products_by_filter"
    /\ call.error = "none"
    /\ call.listing = listing
    /\ call.tags_slugs = tags_slugs
    /\ call.prices = prices
    /\ call.attributes = attributes

\* One call.  The record of the call keeps its arguments and its outcome,
\* and for the claims: streak - how many times in a row this call has been
\* made, before - the table ranking_index when the first of them started.
get_products_by_filter(listing, tags_slugs, prices, attributes) ==
    /\ call.op \in {"none", "get_products_by_filter"}
    /\ \E out \in {FilterOutcome(Published, listing, tags_slugs, prices, attributes)},
          again \in {SameCall(listing, tags_slugs, prices, attributes)} :
           /\ \A r \in RankingIds :
                out.ranking[r].index_counter.first_week <= MaxFilterUses
           /\ again => call.streak < MaxFilterUses
           /\ ranking' = out.ranking
           /\ hist' = [r \in RankingIds |->
                          IF out.ranking[r] # ranking[r]
                          THEN HistAfterIncrement(out.ranking[r]) ELSE hist[r]]
           /\ call' = [op |-> "get_products_by_filter",
                       listing |-> listing, tags_slugs |-> tags_slugs,
                       prices |-> prices, attributes |-> attributes,
                       error |-> out.error, products |-> out.products,
                       streak |-> IF again THEN call.streak + 1 ELSE 1,
                       before |-> IF again THEN call.before ELSE ranking]
    /\ UNCHANGED <<ops, requestVars, storeVars, product_attribute, reviews,
                   product_in_shop, product_day, today, tableVars>>

\* The response has been sent.
Respond ==
    /\ call # CallIdle
    /\ call' = CallIdle
    /\ UNCHANGED <<rankingVars, ops, requestVars, storeVars, product_attribute, reviews,
                   product_in_shop, product_day, today, tableVars>>

\* set_product_attribute_values: the values of the ProductAttribute row of
\* a product for an attribute are replaced.
set_product_attribute_values(p, attribute, values) ==
    /\ call = CallIdle
    /\ product_attribute[p][attribute] # values
    /\ product_attribute' = [product_attribute EXCEPT ![p][attribute] = values]
    /\ UNCHANGED <<rankingVars, ops, requestVars, storeVars, reviews,
                   product_in_shop, product_day, today, tableVars, call>>

(***************************************************************************)
(* Attribute filters on the listing pages, with the attribute values of    *)
(* the products being edited between the calls.                            *)
(***************************************************************************)
\* The value sets a product is given for an attribute.
ProductValueChoices(attribute) ==
    CASE attribute = "color" -> {{}, {"red"}, {"blue"}}
      [] attribute = "diagonal" -> {{"32"}, {"n-a"}}
      [] OTHER -> {{}}

\* Items of an attributes dict whose slug is configured for "televizory".
FilterItems ==
    {[slug |-> "color", values |-> values] :
        values \in {{}, {Slug("red")}, {Slug("red"), Slug("blue")}}}
    \cup
    {[slug |-> "diagonal", values |-> values] :
        values \in {{Range(30, 40), Range(50, 60)}, {Slug("n-a")}}}

\* The attributes dicts with at most two of the items.
AttributeFilters(items) ==
    {<<>>} \cup {<<item>> : item \in items}
           \cup {pair \in items \X items : pair[1].slug # pair[2].slug}

ConfiguredFilters == AttributeFilters(FilterItems)

Keys(attributes) == {attributes[i].slug : i \in 1 .. Len(attributes)}

\* Every key of the dict is an attribute configured for the listing.
Configured(listing, attributes) ==
    \A attribute_slug \in Keys(attributes) :
        /\ attribute_slug \in Attributes
        /\ ListingAttributeFor(listing, attribute_slug) # {}

NextFilter ==
    \/ \E p \in Products, attribute \in {"color", "diagonal"} :
            \E values \in ProductValueChoices(attribute) :
                set_product_attribute_values(p, attribute, values)
    \/ \E listing \in Listings, attributes \in ConfiguredFilters :
            /\ Configured(listing, attributes)
            /\ get_products_by_filter(listing, {}, {}, attributes)
    \/ Respond

SpecFilter == Init /\ [][NextFilter]_vars

\* The last call was get_products_by_filter and it returned a product set.
Filtered == call.op = "get_products_by_filter" /\ call.error = "none"

\* The published products tagged with the listing of the call.
Candidates ==
    {p \in Products : product[p].publish /\ call.listing \in product[p].tags}

\* The product has the value for the attribute, or a value of its for the
\* attribute is a number within the range.
HasValue(p, attribute, value) ==
    IF value.kind = "range"
    THEN \E v \in product_attribute[p][attribute] :
            NumericValue(v) \in value.min .. value.max
    ELSE value.slug \in product_attribute[p][attribute]

RemoveAt(seq, i) == SubSeq(seq, 1, i - 1) \o SubSeq(seq, i + 1, Len(seq))

\* Removing a key from the filter of the call removes no product from the
\* result.
RelaxationIsMonotonic ==
    \A i \in 1 .. Len(call.attributes) :
        call.products \subseteq
            FilterOutcome(Published, call.listing, call.tags_slugs, call.prices,
                          RemoveAt(call.attributes, i)).products

\* C13 (as claimed): for a filter {a1: V1, ..., ak: Vk} the result is exactly
\* the candidate products of the listing that, for every attribute ai, have
\* at least one of the values (or fall in at least one of the ranges) of Vi;
\* removing a key from the filter never removes a product from the result.
C13_AttributeFilterAsClaimed ==
    Filtered =>
        /\ call.products =
                {p \in Candidates :
                    \A i \in 1 .. Len(call.attributes) :
                        \E value \in call.attributes[i].values :
                            HasValue(p, call.attributes[i].slug, value)}
        /\ RelaxationIsMonotonic

\* C13 (amended): the result is exactly the candidate products of the listing
\* that, for every attribute ai whose list Vi is not empty, have at least one
\* of the values (or fall in at least one of the ranges) of Vi; an attribute
\* with an empty list does not narrow the result; removing a key from the
\* filter never removes a product from the result.
C13_AttributeFilterLaw ==
    Filtered =>
        /\ call.products =
                {p \in Candidates :
                    \A i \in 1 .. Len(call.attributes) :
                        call.attributes[i].values # {} =>
                            \E value \in call.attributes[i].values :
                                HasValue(p, call.attributes[i].slug, value)}
        /\ RelaxationIsMonotonic

\* A filter on two attributes, one of them with two values, has returned one
\* of two candidates, and fewer products than the filter without its second
\* key returns.
C13_Witness ==
    /\ Filtered
    /\ Len(call.attributes) = 2
    /\ \E i \in 1 .. 2 : Cardinality(call.attributes[i].values) = 2
    /\ Cardinality(Candidates) = 2
    /\ Cardinality(call.products) = 1
    /\ call.products #
            FilterOutcome(Published, call.listing, call.tags_slugs, call.prices,
                          RemoveAt(call.attributes, 2)).products

\* The popular rows of the ListingAttribute rows (listing, a), a a key of the
\* filter of the call.
FilterRows ==
    {r \in RankingIds :
        \E la \in ListingAttributes :
            /\ r = <<la, "popular">>
            /\ ListingAttributeRow(la).listing = call.listing
            /\ ListingAttributeRow(la).attribute \in Keys(call.attributes)}

\* C16: a call of get_products_by_filter whose keys are all configured for
\* the listing adds 1 to first_week of the popular row of each ListingAttribute
\* (listing, key) and changes no other row and no other field; a call without
\* attribute filters changes no row; the same call made twice adds 2.
C16_FilterPopularity ==
    Filtered =>
        \A r \in RankingIds :
            ranking[r] =
                IF r \in FilterRows
                THEN [call.before[r] EXCEPT !.index_counter.first_week = @ + call.streak]
                ELSE call.before[r]

\* The same filter on two attributes has been applied twice in a row.
C16_Witness ==
    /\ Filtered
    /\ call.streak = 2
    /\ Cardinality(FilterRows) = 2

(***************************************************************************)
(* Price filters on the listing pages, with product edits between the      *)
(* calls.                                                                  *)
(***************************************************************************)
PriceFilterData(p) ==
    {[publish |-> b, price |-> c, discount_percent |-> d, listing |-> ListingOf(p)] :
        b \in BOOLEAN, c \in Prices, d \in 0 .. MaxDiscount}

\* Ranges of the prices list: their bounds are discounted prices of the
\* products (3000 at 1 percent is 2970); the third has its min above its max.
PriceRanges ==
    {Range(ProductDayMinPrice - 30, ProductDayMinPrice - 1),
     Range(ProductDayMinPrice, ProductDayMinPrice),
     Range(ProductDayMinPrice, ProductDayMinPrice - 30)}

NextPriceFilter ==
    \/ \E p \in Products : \E data \in PriceFilterData(p) :
            call = CallIdle /\ update_product(p, data)
    \/ \E prices \in SUBSET PriceRanges :
            get_products_by_filter("televizory", {}, prices, <<>>)
    \/ Respond

SpecPriceFilter == Init /\ [][NextPriceFilter]_vars

\* price * (100 - discount_percent) / 100 of a product, in hundredths.
DiscountedHundredths(p) ==
    (product[p].price * 100 * (100 - product[p].discount_percent)) \div 100

\* C14: when price ranges are given, a listing product is kept if and only
\* if its discounted price price * (100 - discount_percent) / 100 lies in
\* [min, max] of at least one range, bounds included; when no range is given
\* no product is dropped for its price.
C14_PriceFilter ==
    (Filtered /\ call.tags_slugs = {} /\ call.attributes = <<>>) =>
        call.products =
            {p \in Candidates :
                call.prices # {} =>
                    \E range_value \in call.prices :
                        /\ range_value.min * 100 <= DiscountedHundredths(p)
                        /\ DiscountedHundredths(p) <= range_value.max * 100}

\* A call with two ranges has kept a discounted product whose discounted
\* price is the lower bound of a range and dropped another product.
C14_Witness ==
    /\ Filtered
    /\ Cardinality(call.prices) >= 2
    /\ \E p \in call.products, range_value \in call.prices :
            /\ product[p].discount_percent > 0
            /\ DiscountedHundredths(p) = range_value.min * 100
    /\ Candidates \ call.products # {}

(***************************************************************************)
(* Filters that name an attribute the listing is not configured for, or    *)
(* that hold a range whose min is above its max.                           *)
(***************************************************************************)
\* Items with a slug that has no Attribute row ("unknown"), with an attribute
\* that has no ListingAttribute row of "televizory" ("size"), and with a
\* range whose min is above its max; and one well-formed item.
InvalidFilterItems ==
    {[slug |-> "unknown", values |-> {Slug("red")}],
     [slug |-> "size", values |-> {Slug("red")}],
     [slug |-> "diagonal", values |-> {Range(40, 30)}],
     [slug |-> "color", values |-> {Slug("red")}]}

\* A range whose min is above its max.
Malformed(range_value) ==
    range_value.kind = "range" /\ range_value.min > range_value.max

\* The filter names an attribute that is not configured for the listing or
\* holds a malformed range.
InvalidFilterSpec(listing, prices, attributes) ==
    \/ ~Configured(listing, attributes)
    \/ \E range_value \in prices : Malformed(range_value)
    \/ \E i \in 1 .. Len(attributes) :
            \E value \in attributes[i].values : Malformed(value)

\* The prices lists of the calls: none, or one range with min above max.
InvalidPrices == {{}, {Range(ProductDayMinPrice, ProductDayMinPrice - 30)}}

\* The calls whose filter is invalid in one of the two ways.
InvalidFilters ==
    {f \in [listing : Listings, prices : InvalidPrices,
            attributes : AttributeFilters(InvalidFilterItems)] :
        InvalidFilterSpec(f.listing, f.prices, f.attributes)}

NextInvalidFilter ==
    \/ \E p \in Products : \E values \in ProductValueChoices("color") :
            set_product_attribute_values(p, "color", values)
    \/ \E f \in InvalidFilters :
            get_products_by_filter(f.listing, {}, f.prices, f.attributes)
    \/ Respond

SpecInvalidFilter == Init /\ [][NextInvalidFilter]_vars

\* C17 (as claimed): a call of get_products_by_filter whose filter names an
\* attribute that is not configured for the listing, or holds a range with
\* min > max, fails with an error instead of returning a product set.
C17_InvalidFilterRejected ==
    (call.op = "get_products_by_filter"
        /\ InvalidFilterSpec(call.listing, call.prices, call.attributes)) =>
        call.error # "none"

(***************************************************************************)
(* Product.discounted_price and Product.discount_amount.  A price is an    *)
(* integer of hundredths (DecimalField with 2 decimal places), a discount  *)
(* percent an integer of tenths of a percent.                              *)
(***************************************************************************)
\* Hundredths in one whole unit of a price.
PriceScale == 100

\* Tenths in one percent.
PercentScale == 10

\* Decimal("0.5"), in tenths of a percent.
DiscountThreshold == 5

\* price * discount_percent / Decimal("100"), quantized to a whole number
\* by rounding to the nearest one.
MutDiscountAmountHalfUp(price, discount_percent) ==
    IF discount_percent < DiscountThreshold
    THEN 0
    ELSE ((2 * price * discount_percent + PriceScale * PercentScale * 100)
             \div (2 * PriceScale * PercentScale * 100)) * PriceScale

\* Product.discount_amount: quantize(Decimal("1"), rounding=ROUND_DOWN) of a
\* value that is not negative drops its fraction.
discount_amount(price, discount_percent) ==
    IF discount_percent < DiscountThreshold
    THEN 0
    ELSE ((price * discount_percent) \div (PriceScale * PercentScale * 100))
             * PriceScale

\* Product.discounted_price
discounted_price(price, discount_percent) ==
    price - discount_amount(price, discount_percent)

\* Prices from 0 to 1000.00, with and without hundredths.
DiscountPrices ==
    {0, 1, 99, 100, 150, 9950, 19900, 25000, 99900, 99950, 100000}

\* Percents from 0 to 100, with and without tenths, on both sides of 0.5.
DiscountPercents == {0, 1, 4, 5, 9, 10, 15, 100, 155, 333, 500, 999, 1000}

\* The property is read for a product with the given price and percent.
read_discounted_price(price, discount_percent) ==
    /\ call.op \in {"none", "discounted_price"}
    /\ call' = [op |-> "discounted_price", price |-> price,
                discount_percent |-> discount_percent,
                result |-> discounted_price(price, discount_percent)]
    /\ UNCHANGED <<ranking, hist, ops, requestVars, storeVars,
                   product_attribute, reviews, product_in_shop, product_day,
                   today, tableVars>>

NextDiscount ==
    \/ \E price \in DiscountPrices, discount_percent \in DiscountPercents :
            read_discounted_price(price, discount_percent)
    \/ Respond

SpecDiscount == Init /\ [][NextDiscount]_vars

\* The whole number d with d <= price * discount_percent / 100 < d + 1, for
\* a price in hundredths and a percent in tenths.
FloorOfDiscount(price, discount_percent) ==
    CHOOSE d \in 0 .. (price \div PriceScale) + 1 :
        /\ d * PriceScale * PercentScale * 100 <= price * discount_percent
        /\ price * discount_percent < (d + 1) * PriceScale * PercentScale * 100

\* C15 (as claimed): for price >= 0 and discount_percent in 0..100,
\* discounted_price = price - floor(price * discount_percent / 100).
C15_DiscountedPriceAsClaimed ==
    call.op = "discounted_price" =>
        call.result = call.price
            - PriceScale * FloorOfDiscount(call.price, call.discount_percent)

\* C15 (amended): for price >= 0 and discount_percent from 0.5 to 100,
\* discounted_price = price - floor(price * discount_percent / 100), the
\* discount amount being rounded down; for a discount_percent below 0.5 the
\* discount amount is 0 and discounted_price = price.
C15_DiscountedPrice ==
    call.op = "discounted_price" =>
        IF call.discount_percent < DiscountThreshold
        THEN call.result = call.price
        ELSE call.result = call.price
                 - PriceScale * FloorOfDiscount(call.price, call.discount_percent)

\* Price 999 at 10 percent: discount amount 99, discounted price 900.
C15_Witness ==
    /\ call.op = "discounted_price"
    /\ call.price = 999 * PriceScale
    /\ call.discount_percent = 10 * PercentScale
    /\ call.result = 900 * PriceScale

(***************************************************************************)
(* form_filters_by_products_list: the filters data of a listing, counted   *)
(* over the products of the listing before any filter is applied.          *)
(***************************************************************************)
MaxReviews == 2    \* ProductReview rows per product

\* AttributeValue rows in the order of Meta.ordering = ["slug"].
AttributeValuesBySlug == <<"32", "blue", "n-a", "red">>

\* ListingAttribute._possible_values
PossibleValues(la) ==
    IF ListingAttributeRow(la).attribute = "color"
    THEN {"red", "blue"}
    ELSE {"32", "n-a"}

\* create_product_review: one more ProductReview row of the product.
create_product_review(p) ==
    /\ call = CallIdle
    /\ reviews[p] < MaxReviews
    /\ reviews' = [reviews EXCEPT ![p] = @ + 1]
    /\ UNCHANGED <<rankingVars, ops, requestVars, storeVars, product_attribute,
                   product_in_shop, product_day, today, tableVars, call>>

\* Rows of the product in a query over Product.objects: get_queryset()
\* annotates Avg("_reviews__rating") and Count("_reviews"), whose LEFT OUTER
\* JOIN to the reviews gives one row per review, and one row without any.
JoinedRows(p) == IF reviews[p] = 0 THEN 1 ELSE reviews[p]

RECURSIVE SumRows(_)
SumRows(products) ==
    IF products = {} THEN 0
    ELSE LET p == CHOOSE q \in products : TRUE
         IN JoinedRows(p) + SumRows(products \ {p})

\* One row per product, whatever its reviews.
MutAggregatedCountsDistinct(products_list, attribute, value) ==
    Cardinality({p \in products_list : value \in product_attribute[p][attribute]})

\* products_list.filter(_attributes=attribute)
\*     .values("_product_attributes___values").annotate(Count("id")):
\* the rows of the group of the value.  values() hides the annotations of
\* the manager and keeps their joins.
aggregated_counts(products_list, attribute, value) ==
    SumRows({p \in products_list : value \in product_attribute[p][attribute]})

\* list.sort(key=products_count, reverse=True): a stable sort, by insertion.
RECURSIVE InsertByCount(_, _)
InsertByCount(sorted, value_dict) ==
    IF sorted = <<>> THEN <<value_dict>>
    ELSE IF Head(sorted).products_count >= value_dict.products_count
         THEN <<Head(sorted)>> \o InsertByCount(Tail(sorted), value_dict)
         ELSE <<value_dict>> \o sorted

RECURSIVE SortByCount(_)
SortByCount(values) ==
    IF values = <<>> THEN <<>>
    ELSE InsertByCount(SortByCount(SubSeq(values, 1, Len(values) - 1)),
                       values[Len(values)])

\* attribute_dict of one ListingAttribute
AttributeDict(la, products_list) ==
    LET attribute == ListingAttributeRow(la).attribute
        value_dict(value) ==
            [slug |-> value,
             products_count |-> aggregated_counts(products_list, attribute, value)]
        possible ==
            SelectSeq(AttributeValuesBySlug, LAMBDA v : v \in PossibleValues(la))
        possible_values == [i \in 1 .. Len(possible) |-> value_dict(possible[i])]
    IN [attribute |-> attribute,
        possible_values |-> SortByCount(possible_values),
        empty |-> \A i \in 1 .. Len(possible_values) :
                      possible_values[i].products_count = 0]

\* CatalogViewSet.products up to the filters data: the products of the
\* listing among the published ones, and their filters.
form_filters_by_products_list(listing) ==
    /\ call = CallIdle
    /\ call' = [op |-> "form_filters_by_products_list",
                listing |-> listing,
                products |-> ListingProducts(Published, listing),
                attributes |->
                    [la \in ListingAttributesOf(listing) |->
                        AttributeDict(la, ListingProducts(Published, listing))]]
    /\ UNCHANGED <<rankingVars, ops, requestVars, storeVars, product_attribute,
                   reviews, product_in_shop, product_day, today, tableVars>>

NextFacets ==
    \/ \E p \in Products : \E data \in ListingData(p) :
            call = CallIdle /\ update_product(p, data)
    \/ \E p \in Products, attribute \in {"color", "diagonal"} :
            \E values \in ProductValueChoices(attribute) :
                set_product_attribute_values(p, attribute, values)
    \/ \E p \in Products : create_product_review(p)
    \/ \E listing \in Listings : form_filters_by_products_list(listing)
    \/ Respond

SpecFacets == Init /\ [][NextFacets]_vars

\* C18 (as claimed): in the filters data of a listing, every possible value
\* of every ListingAttribute has as products_count the number of products of
\* the candidate set that have the value for the attribute, the attribute is
\* empty exactly when all its counts are 0, and the values are listed in
\* non-increasing order of products_count.
C18_Facets ==
    call.op = "form_filters_by_products_list" =>
        \A la \in ListingAttributesOf(call.listing) :
            LET attribute_dict == call.attributes[la]
                values == attribute_dict.possible_values
            IN /\ {values[i].slug : i \in 1 .. Len(values)} = PossibleValues(la)
               /\ \A i \in 1 .. Len(values) :
                      values[i].products_count =
                          Cardinality({p \in call.products :
                              values[i].slug
                                  \in product_attribute[p][attribute_dict.attribute]})
               /\ attribute_dict.empty <=>
                      \A i \in 1 .. Len(values) : values[i].products_count = 0
               /\ \A i \in 1 .. Len(values) - 1 :
                      values[i].products_count >= values[i + 1].products_count

(***************************************************************************)
(* CatalogViewSet.products in a city context: the has_shop_stock           *)
(* annotation, the availability counts and the availability filter.        *)
(***************************************************************************)
Shops == {"s1", "s2"}
Cities == {"berlin", "hamburg"}
NoCity == "none"

\* Shop rows: both shops are in the same city, one without pickup.
ShopRow(shop) ==
    IF shop = "s1"
    THEN [city_obj |-> "berlin", pickup |-> TRUE]
    ELSE [city_obj |-> "berlin", pickup |-> FALSE]

AvailabilitySlugs == {"in_stock", "preorder", "unavailable"}

\* create_product_in_shop: a row with the quantity; a row with quantity 0
\* is in no query of ProductInShop with quantity__gt=0.
create_product_in_shop(p, shop, quantity) ==
    /\ call = CallIdle
    /\ quantity >= 0
    /\ shop \notin product_in_shop[p]
    /\ product_in_shop' =
            [product_in_shop EXCEPT
                ![p] = IF quantity > 0 THEN @ \cup {shop} ELSE @]
    /\ UNCHANGED <<rankingVars, ops, requestVars, storeVars, product_attribute,
                   reviews, product_day, today, tableVars, call>>

\* Shop.objects.filter(city_obj__id=city_id, pickup=True), narrowed to
\* shops_ids when some are given.
city_shops_qs(city_id, shops_ids) ==
    {shop \in Shops :
        /\ ShopRow(shop).city_obj = city_id
        /\ ShopRow(shop).pickup
        /\ shops_ids # {} => shop \in shops_ids}

\* Exists(ProductInShop.objects.filter(product=OuterRef("pk"),
\*        shop__in=city_shops_qs, quantity__gt=0))
has_shop_stock(p, city_id, shops_ids) ==
    product_in_shop[p] \cap city_shops_qs(city_id, shops_ids) # {}

\* The preorder condition without has_shop_stock=False.
MutAvailabilityQAnyStock(p, slug, stock) ==
    CASE slug = "in_stock" -> stock /\ product[p].quantity >= 1
      [] slug = "preorder" -> product[p].quantity >= 1
      [] slug = "unavailable" -> product[p].quantity = 0
      [] OTHER -> FALSE

\* The Q object of an availability slug, on a product whose has_shop_stock
\* is stock.
AvailabilityQ(p, slug, stock) ==
    CASE slug = "in_stock" -> stock /\ product[p].quantity >= 1
      [] slug = "preorder" -> ~stock /\ product[p].quantity >= 1
      [] slug = "unavailable" -> product[p].quantity = 0
      [] OTHER -> FALSE

\* The requested list as it is.
MutAvailabilityFiltersAsRequested(requested) == requested

\* request.GET.getlist("availability") or ["in_stock", "preorder"]
availability_filters(requested) ==
    IF requested = {} THEN {"in_stock", "preorder"} ELSE requested

\* products_qs.filter(availability_q) unless the three slugs are requested;
\* an empty Q does not narrow.
AvailabilityFiltered(products, stock, requested) ==
    LET slugs == availability_filters(requested)
    IN IF slugs = AvailabilitySlugs \/ slugs \cap AvailabilitySlugs = {}
       THEN products
       ELSE {p \in products :
                \E slug \in slugs : AvailabilityQ(p, slug, stock[p])}

\* CatalogViewSet.products without filters: the published products of the
\* listing; with a city, their has_shop_stock, the availability counts and
\* the availability filter.
products(listing, city_id, shops_ids, requested) ==
    /\ call = CallIdle
    /\ LET products_qs == ListingProducts(Published, listing)
           stock == [p \in Products |-> has_shop_stock(p, city_id, shops_ids)]
       IN call' =
            [op |-> "products", listing |-> listing, city |-> city_id,
             shops |-> shops_ids, requested |-> requested,
             annotated |-> products_qs,
             has_shop_stock |-> stock,
             availability |->
                IF city_id = NoCity THEN {}
                ELSE {[slug |-> slug,
                       products_count |->
                           Cardinality({p \in products_qs :
                               AvailabilityQ(p, slug, stock[p])})] :
                      slug \in AvailabilitySlugs},
             products |->
                IF city_id = NoCity THEN products_qs
                ELSE AvailabilityFiltered(products_qs, stock, requested)]
    /\ UNCHANGED <<rankingVars, ops, requestVars, storeVars, product_attribute,
                   reviews, product_in_shop, product_day, today, tableVars>>

NextAvailability ==
    \/ \E p \in Products : call = CallIdle /\ CreateNewOrderByOneClick(p)
    \/ \E p \in Products, shop \in Shops, quantity \in 0 .. 1 :
            create_product_in_shop(p, shop, quantity)
    \/ \E listing \in Listings, city_id \in Cities \cup {NoCity},
          shops_ids \in {{}, {"s2"}}, requested \in SUBSET AvailabilitySlugs :
            products(listing, city_id, shops_ids, requested)
    \/ Respond

SpecAvailability == Init /\ [][NextAvailability]_vars

\* The products of the call lying in the bucket.
Bucket(slug) ==
    {p \in call.annotated :
        CASE slug = "in_stock" ->
                call.has_shop_stock[p] /\ product[p].quantity >= 1
          [] slug = "preorder" ->
                ~call.has_shop_stock[p] /\ product[p].quantity >= 1
          [] OTHER -> product[p].quantity = 0}

CountOf(slug) ==
    (CHOOSE item \in call.availability : item.slug = slug).products_count

InCity == call.op = "products" /\ call.city # NoCity

\* C19: in a city context every product of the set is counted in exactly
\* one of in_stock, preorder and unavailable: each count is the size of its
\* bucket, the buckets are disjoint and cover the set, and the three counts
\* sum to the size of the set.
C19_AvailabilityBuckets ==
    InCity =>
        /\ \A slug \in AvailabilitySlugs : CountOf(slug) = Cardinality(Bucket(slug))
        /\ \A p \in call.annotated :
               Cardinality({slug \in AvailabilitySlugs : p \in Bucket(slug)}) = 1
        /\ CountOf("in_stock") + CountOf("preorder") + CountOf("unavailable")
               = Cardinality(call.annotated)

\* A set with a product in each of the three buckets has been counted.
C19_Witness ==
    /\ InCity
    /\ CountOf("in_stock") = 1
    /\ CountOf("unavailable") = 1
    /\ Cardinality(call.annotated) = 2

\* The products lying in at least one of the buckets.
InBuckets(slugs) == UNION {Bucket(slug) : slug \in slugs}

\* C20 (as claimed): in a city context, a requested availability set that
\* is a strict subset of the three slugs returns exactly the products lying
\* in at least one requested bucket, and the full set removes no product.
C20_AvailabilityFilterAsClaimed ==
    InCity =>
        IF call.requested = AvailabilitySlugs
        THEN call.products = call.annotated
        ELSE call.products = InBuckets(call.requested)

\* C20 (amended): as claimed for a requested set that is not empty; when no
\* availability is requested, the products returned are those in stock or
\* on preorder.
C20_AvailabilityFilter ==
    InCity =>
        CASE call.requested = AvailabilitySlugs ->
                call.products = call.annotated
          [] call.requested = {} ->
                call.products = InBuckets({"in_stock", "preorder"})
          [] OTHER -> call.products = InBuckets(call.requested)

\* One requested bucket has removed a product and kept another.
C20_Witness ==
    /\ InCity
    /\ call.requested = {"preorder"}
    /\ call.products # {}
    /\ call.products # call.annotated

(***************************************************************************)
(* sort_products over the queryset of ProductManager, whose default order  *)
(* is status_order, -popular___index, -created_at.                         *)
(***************************************************************************)
\* Product.status: a quantity below this and above 0 is LIMITED.
LimitedBelow == 4

\* Product.status["code"]
StatusCode(p) ==
    CASE product[p].quantity = 0 -> "OUT_OF_STOCK"
      [] product[p].quantity < LimitedBelow -> "LIMITED"
      [] OTHER -> "IN_STOCK"

\* No tiering: every product has the same status_order.
MutStatusOrderFlat(p) == 1

\* The status_order annotation of ProductManager.get_queryset.
status_order(p) ==
    CASE product[p].quantity > 0 -> 1
      [] product[p].quantity = 0 -> 2
      [] OTHER -> 3

\* created_at (auto_now_add): the products were created in this order.
CreatedAt(p) == IF p = "p1" THEN 1 ELSE 2

SortModes == {"none", "cheap", "expensive", "discount", "rating"}

\* The ORDER BY columns of the queryset sort_products returns, each as a
\* number to be taken in ascending order.
OrderKey(p, sort) ==
    CASE sort \in {"cheap"} ->
            <<status_order(p), AnnotatedDiscountedPrice(p)>>
      [] sort = "expensive" ->
            <<status_order(p), 0 - AnnotatedDiscountedPrice(p)>>
      [] sort = "discount" ->
            <<status_order(p), 0 - product[p].discount_percent,
              0 - ranking[<<p, "popular">>].index, 0 - CreatedAt(p)>>
      [] OTHER ->
            <<status_order(p), 0 - ranking[<<p, "popular">>].index,
              0 - CreatedAt(p)>>

RECURSIVE LexLeq(_, _)
LexLeq(a, b) ==
    IF a = <<>> THEN TRUE
    ELSE \/ Head(a) < Head(b)
         \/ Head(a) = Head(b) /\ LexLeq(Tail(a), Tail(b))

\* The orders in which the database may return the rows: rows with equal
\* ORDER BY columns come in any order.
Orderings(products_set, sort) ==
    {seq \in [1 .. Cardinality(products_set) -> products_set] :
        /\ \A i, j \in DOMAIN seq : i # j => seq[i] # seq[j]
        /\ \A i, j \in DOMAIN seq :
               i < j => LexLeq(OrderKey(seq[i], sort), OrderKey(seq[j], sort))}

sort_products(sort) ==
    /\ call = CallIdle
    /\ \E seq \in Orderings(Published, sort) :
            call' = [op |-> "sort_products", sort |-> sort, products |-> seq]
    /\ UNCHANGED <<rankingVars, ops, requestVars, storeVars, product_attribute,
                   reviews, product_in_shop, product_day, today, tableVars>>

\* Product data of an edit: a quantity that is out of stock, limited or in
\* stock, a price and a discount.
SortData(p) ==
    {[publish |-> product[p].publish, quantity |-> q, price |-> c,
      discount_percent |-> d, listing |-> ListingOf(p)] :
        q \in {0, 1, LimitedBelow}, c \in Prices, d \in {0, MaxDiscount}}

NextSort ==
    \/ \E p \in Products : \E data \in SortData(p) :
            call = CallIdle /\ update_product(p, data)
    \/ \E p \in Products : call = CallIdle /\ ProductRetrieve(p)
    \/ \E p \in Products : call = CallIdle /\ update_index(<<p, "popular">>)
    \/ \E sort \in SortModes : sort_products(sort)
    \/ Respond

SpecSort == Init /\ [][NextSort]_vars

Sorted == call.op = "sort_products"

\* The key of the mode, without the stock status.
ModeKey(p, sort) == Tail(OrderKey(p, sort))

\* C21 (as claimed): in the output of sort_products every in-stock product
\* precedes every limited-stock product, which precedes every out-of-stock
\* product, and inside one tier the products follow the mode's key.
StatusTier(p) ==
    CASE StatusCode(p) = "IN_STOCK" -> 1
      [] StatusCode(p) = "LIMITED" -> 2
      [] OTHER -> 3

C21_StockTiersAsClaimed ==
    Sorted =>
        \A i, j \in DOMAIN call.products :
            i < j =>
                LET a == call.products[i]
                    b == call.products[j]
                IN /\ StatusTier(a) <= StatusTier(b)
                   /\ StatusTier(a) = StatusTier(b) =>
                          LexLeq(ModeKey(a, call.sort), ModeKey(b, call.sort))

\* C21 (amended): in the output of sort_products every product with
\* quantity > 0 (in stock or limited) precedes every out-of-stock product,
\* and inside each of these two tiers the products follow the mode's key.
C21_StockTiers ==
    Sorted =>
        \A i, j \in DOMAIN call.products :
            i < j =>
                LET a == call.products[i]
                    b == call.products[j]
                    out(p) == product[p].quantity = 0
                IN /\ out(a) => out(b)
                   /\ out(a) = out(b) =>
                          LexLeq(ModeKey(a, call.sort), ModeKey(b, call.sort))

\* The cheap order has put a dearer product with stock before a cheaper
\* one without.
C21_Witness ==
    /\ Sorted
    /\ call.sort = "cheap"
    /\ Len(call.products) = 2
    /\ product[call.products[1]].quantity > 0
    /\ product[call.products[2]].quantity = 0
    /\ AnnotatedDiscountedPrice(call.products[1])
           > AnnotatedDiscountedPrice(call.products[2])

(***************************************************************************)
(* The RankingIndex rows of owners that are created and deleted: the       *)
(* managers' create(), create_or_increment_search_query and                *)
(* delete_search_query.                                                    *)
(***************************************************************************)
MaxRows == 6    \* RankingIndex rows created per behaviour

Exists(o) == \A slot \in SlotsOf(o) : owner[slot] # 0

\* The slots take the rows' pks in the order of the keyword arguments.
RECURSIVE AssignRows(_, _, _)
AssignRows(owners, slots, pk) ==
    IF slots = {} THEN owners
    ELSE LET slot == CHOOSE t \in slots : TRUE
         IN AssignRows([owners EXCEPT ![slot] = pk], slots \ {slot}, pk + 1)

RECURSIVE FreshRows(_)
FreshRows(n) == IF n = 0 THEN <<>> ELSE <<create_ranking_index>> \o FreshRows(n - 1)

\* ProductManager.create, CatalogManager.create, ListingAttributeManager.create
\* and SearchQueryManager.create: create_ranking_index() is called for every
\* slot, then the owner is inserted with the rows.
ManagerCreate(o) ==
    /\ call = CallIdle
    /\ ~Exists(o)
    /\ Len(index_table) + Cardinality(SlotsOf(o)) <= MaxRows
    /\ index_table' = index_table \o FreshRows(Cardinality(SlotsOf(o)))
    /\ owner' = AssignRows(owner, SlotsOf(o), Len(index_table) + 1)
    /\ UNCHANGED <<rankingVars, ops, requestVars, storeVars, product_attribute,
                   reviews, product_in_shop, product_day, today, call, catalog,
                   txn, order, ordered>>

\* create_search_query(text) for a text that has a search query: the
\* arguments of create() are evaluated first, so the RankingIndex row is
\* inserted, and the insert of the search query then fails on unique=True.
create_search_query_duplicate(text) ==
    /\ call = CallIdle
    /\ Exists(text)
    /\ Len(index_table) < MaxRows
    /\ index_table' = index_table \o <<create_ranking_index>>
    /\ UNCHANGED <<rankingVars, ops, requestVars, storeVars, product_attribute,
                   reviews, product_in_shop, product_day, today, call, owner, catalog,
                   txn, order, ordered>>

\* create_or_increment_search_query(text): the search query of the text is
\* created unless there is one, and its popular row is incremented by 1.
create_or_increment_search_query(text) ==
    /\ call = CallIdle
    /\ Exists(text) \/ Len(index_table) < MaxRows
    /\ LET created == ~Exists(text)
           table == IF created THEN index_table \o <<create_ranking_index>>
                    ELSE index_table
           pk == IF created THEN Len(table) ELSE owner[<<text, "popular">>]
       IN /\ table[pk].index_counter.first_week < MaxCount
          /\ index_table' = [table EXCEPT ![pk] = IncrementedRow(@, 1)]
          /\ owner' = [owner EXCEPT ![<<text, "popular">>] = pk]
    /\ UNCHANGED <<rankingVars, ops, requestVars, storeVars, product_attribute,
                   reviews, product_in_shop, product_day, today, call, catalog,
                   txn, order, ordered>>

\* delete_search_query: search_query.delete().  popular is a OneToOneField
\* of the search query with on_delete=CASCADE, which deletes the search
\* query when the row is deleted, not the row when the search query is.
delete_search_query(text) ==
    /\ call = CallIdle
    /\ Exists(text)
    /\ owner' = [owner EXCEPT ![<<text, "popular">>] = 0]
    /\ UNCHANGED <<rankingVars, ops, requestVars, storeVars, product_attribute,
                   reviews, product_in_shop, product_day, today, call, index_table, catalog,
                   txn, order, ordered>>

NextOwners ==
    \/ \E o \in LaterOwners : ManagerCreate(o)
    \/ \E text \in SearchTexts : create_search_query_duplicate(text)
    \/ \E text \in SearchTexts : create_or_increment_search_query(text)
    \/ \E text \in SearchTexts : delete_search_query(text)

SpecOwners == Init /\ [][NextOwners]_vars

\* C22: every slot of an owner references one RankingIndex row of the
\* table, the rows of a product, a catalog node and a listing attribute are
\* as created (index 0, counters 0), no row is referenced by two slots, and
\* every row of the table is referenced by a slot: deleting an owner deletes
\* its rows.
C22_OneToOneOwnership ==
    /\ \A o \in LaterOwners :
           \/ \A slot \in SlotsOf(o) : owner[slot] = 0
           \/ \A slot \in SlotsOf(o) : owner[slot] \in DOMAIN index_table
    /\ \A slot \in LaterSlots \ (SearchTexts \X {"popular"}) :
           owner[slot] # 0 => index_table[owner[slot]] = create_ranking_index
    /\ \A a, b \in LaterSlots :
           (a # b /\ owner[a] # 0) => owner[a] # owner[b]
    /\ \A pk \in DOMAIN index_table : \E slot \in LaterSlots : owner[slot] = pk

(***************************************************************************)
(* The tags update_product gives a product, by the class of the catalog    *)
(* nodes its listing_id, brand_id and other_tags_ids name.                 *)
(***************************************************************************)
Brands == {"samsung", "lg"}
Categories == {"tehnika"}

\* Catalog.object_class of the nodes that the data of an edit may name.
ObjectClass(node) ==
    CASE node \in Listings -> "listing"
      [] node \in Brands -> "brand"
      [] node \in Categories -> "category"
      [] node = BestsellerTag -> "selection"
      [] OTHER -> "freetag"

\* Listing.objects.get(pk=listing_id): Listing is a proxy of Catalog with
\* the manager of Catalog, which does not filter by object_class, so the
\* pk of any node is found.
ListingIds == Listings \cup {"samsung"}

\* Brand.objects.get(pk=brand_id), in the same way.
BrandIds == Brands \cup {"televizory"}

\* Catalog.objects.filter(id__in=other_tags_ids): nodes of any class.
OtherTagsIds == {{}, {BestsellerTag}, {"aksessuary"}, {"lg"}, {"tehnika"}}

TagData(p) ==
    {[publish |-> product[p].publish, price |-> product[p].price,
      discount_percent |-> product[p].discount_percent,
      listing |-> l, brand |-> b, other_tags |-> o] :
        l \in ListingIds, b \in BrandIds, o \in OtherTagsIds}

NextTags ==
    \E p \in Products : \E data \in TagData(p) : update_product(p, data)

SpecTags == Init /\ [][NextTags]_vars

TagsOfClass(p, classes) == {tag \in product[p].tags : ObjectClass(tag) \in classes}

\* C23: every product's tag set holds exactly one listing-class tag and at
\* most one brand-class tag, and every other tag of it is of class selection
\* or freetag.
C23_TagClasses ==
    \A p \in Products :
        /\ Cardinality(TagsOfClass(p, {"listing"})) = 1
        /\ Cardinality(TagsOfClass(p, {"brand"})) <= 1
        /\ product[p].tags =
               TagsOfClass(p, {"listing", "brand", "selection", "freetag"})

(***************************************************************************)
(* The catalog tree: the create_* and update_* services of categories,     *)
(* listings, collections and brands, and the deletion of a node.           *)
(***************************************************************************)
NodeNames == {"a", "b"}
NoSlug == <<"", 0>>

\* to_chpu(name), and to_chpu(name, last_slug=slug): the name, then the
\* name with a number that grows.
to_chpu(name) == <<name, 0>>
NextChpu(slug) == <<slug[1], slug[2] + 1>>

Live(id) == catalog[id].object_class \notin {"none", "deleted"}

\* Catalog.objects.filter(slug=slug, parent__id=parent_id), limited to the
\* classes when some are given; parent_id 0 is None and matches a NULL parent.
check_catalog_exists_by_slug_and_parent(slug, parent_id, classes) ==
    \E id \in NodeIds :
        /\ Live(id)
        /\ catalog[id].slug = slug
        /\ catalog[id].parent = parent_id
        /\ classes # {} => catalog[id].object_class \in classes

RECURSIVE FreeSlug(_, _, _)
FreeSlug(slug, parent_id, classes) ==
    IF check_catalog_exists_by_slug_and_parent(slug, parent_id, classes)
    THEN FreeSlug(NextChpu(slug), parent_id, classes)
    ELSE slug

get_slug_by_name(name, parent_id, classes) ==
    FreeSlug(to_chpu(name), parent_id, classes)

\* The classes a function checks the slug against, the class the parent
\* must have and the exception it raises otherwise.
SlugClasses(cls) ==
    CASE cls \in {"category", "listing"} -> {"category", "listing"}
      [] OTHER -> {cls}

ParentClass(cls) == IF cls = "collection" THEN "listing" ELSE "category"

ParentError(cls) ==
    IF cls = "collection" THEN "ParentCatalogIsNotListing"
    ELSE "ParentCatalogIsNotCategory"

\* The unique_slug_parent constraint: the database refuses a row whose slug
\* and parent are those of another row; rows with a NULL parent never clash.
ViolatesUnique(id, row) ==
    /\ row.parent # 0
    /\ \E other \in NodeIds \ {id} :
           Live(other) /\ catalog[other].slug = row.slug
                       /\ catalog[other].parent = row.parent

Failed(op, error) == [op |-> op, error |-> error, before |-> catalog]

Returned(op, id, row) == [op |-> op, error |-> "none", id |-> id, returned |-> row]

TreeFrame ==
    UNCHANGED <<rankingVars, ops, requestVars, storeVars, product_attribute,
                reviews, product_in_shop, product_day, today, index_table, owner,
                txn, order, ordered>>

Fails(op, error) == call' = Failed(op, error) /\ catalog' = catalog

\* The checks of a create_* or update_* function of a class for a slug and a
\* parent: the error they raise, or "none".
CheckError(cls, slug, parent_id) ==
    CASE parent_id # 0 /\ ~Live(parent_id) -> "ObjectDoesNotExist"
      [] parent_id = 0 /\ cls = "collection" -> "ObjectDoesNotExist"
      [] parent_id # 0 /\ catalog[parent_id].object_class # ParentClass(cls) ->
            ParentError(cls)
      [] check_catalog_exists_by_slug_and_parent(slug, parent_id, SlugClasses(cls)) ->
            "ObjectAlreadyExists"
      [] OTHER -> "none"

\* create_category, create_listing, create_collection: the parent is looked
\* up and its class checked, a slug is made from the name unless one is
\* given, the slug is checked and the node is created.
CreateCatalog(cls, name, given_slug, parent_id) ==
    /\ call = CallIdle
    /\ \E id \in NodeIds :
          /\ catalog[id] = NoNode
          /\ \A lower \in 1 .. id - 1 : catalog[lower] # NoNode
          /\ LET usable == parent_id = 0 \/ Live(parent_id)
                 slug == IF given_slug = NoSlug /\ usable
                         THEN get_slug_by_name(name, parent_id, SlugClasses(cls))
                         ELSE given_slug
                 error == CheckError(cls, slug, parent_id)
                 row == [object_class |-> cls, slug |-> slug,
                         parent |-> parent_id, name |-> name]
             IN CASE error # "none" -> Fails("create_" \o cls, error)
                  [] ViolatesUnique(id, row) -> Fails("create_" \o cls, "IntegrityError")
                  [] OTHER ->
                        /\ catalog' = [catalog EXCEPT ![id] = row]
                        /\ call' = Returned("create_" \o cls, id, row)
    /\ TreeFrame

create_category(name, slug, parent_id) == CreateCatalog("category", name, slug, parent_id)
create_listing(name, slug, parent_id) == CreateCatalog("listing", name, slug, parent_id)
create_collection(name, slug, parent_id) == CreateCatalog("collection", name, slug, parent_id)

\* create_brand: a root node, its slug checked against the brands.
create_brand(name, given_slug) == CreateCatalog("brand", name, given_slug, 0)

\* update_category, update_listing and update_collection: the node is
\* looked up by pk with the unfiltered manager, so a node of any class is
\* found; the checks are those of the function's class; save() writes the
\* node when saves is true.
UpdateCatalog(cls, saves, id, data) ==
    /\ call = CallIdle
    /\ LET op == "update_" \o cls
           usable == data.parent_id = 0 \/ Live(data.parent_id)
           slug == IF data.slug = NoSlug /\ usable
                   THEN get_slug_by_name(data.name, data.parent_id, SlugClasses(cls))
                   ELSE data.slug
           error == IF ~Live(id) THEN "ObjectDoesNotExist"
                    ELSE CheckError(cls, slug, data.parent_id)
           row == [catalog[id] EXCEPT !.slug = slug, !.parent = data.parent_id,
                                      !.name = data.name]
       IN CASE error # "none" -> Fails(op, error)
            [] saves /\ ViolatesUnique(id, row) -> Fails(op, "IntegrityError")
            [] OTHER ->
                  /\ catalog' = IF saves THEN [catalog EXCEPT ![id] = row] ELSE catalog
                  /\ call' = Returned(op, id, row)
    /\ TreeFrame

update_category(id, data) == UpdateCatalog("category", TRUE, id, data)
update_listing(id, data) == UpdateCatalog("listing", TRUE, id, data)

\* update_collection sets the fields of the object and returns it without
\* calling save().
update_collection(id, data) == UpdateCatalog("collection", FALSE, id, data)

\* update_brand: the slug is kept unless the name changes; a new slug is
\* made from the name against the root nodes of every class and checked
\* against the brands; the parent is not touched.
update_brand(id, data) ==
    /\ call = CallIdle
    /\ LET slug == IF Live(id) /\ catalog[id].name # data.name
                   THEN get_slug_by_name(data.name, 0, {})
                   ELSE catalog[id].slug
           row == [catalog[id] EXCEPT !.slug = slug, !.name = data.name]
       IN CASE ~Live(id) -> Fails("update_brand", "ObjectDoesNotExist")
            [] slug # catalog[id].slug
                 /\ check_catalog_exists_by_slug_and_parent(slug, 0, {"brand"}) ->
                  Fails("update_brand", "ObjectAlreadyExists")
            [] ViolatesUnique(id, row) -> Fails("update_brand", "IntegrityError")
            [] OTHER ->
                  /\ catalog' = [catalog EXCEPT ![id] = row]
                  /\ call' = Returned("update_brand", id, row)
    /\ TreeFrame

\* A node is deleted (the admin site registers Catalog): parent is a
\* ForeignKey with on_delete=SET_NULL, so its children stay with a NULL parent.
delete_catalog(id) ==
    /\ call = CallIdle
    /\ Live(id)
    /\ catalog' = [n \in NodeIds |->
                      IF n = id THEN [NoNode EXCEPT !.object_class = "deleted"]
                      ELSE IF catalog[n].parent = id
                           THEN [catalog[n] EXCEPT !.parent = 0]
                           ELSE catalog[n]]
    /\ UNCHANGED call
    /\ TreeFrame

NodeData ==
    [name : NodeNames, slug : {NoSlug, to_chpu("a")}, parent_id : 0 .. MaxNodes]

NextTree ==
    \/ \E name \in NodeNames, slug \in {NoSlug, to_chpu("a")}, parent_id \in 0 .. MaxNodes :
            \/ create_category(name, slug, parent_id)
            \/ create_listing(name, slug, parent_id)
            \/ create_collection(name, slug, parent_id)
            \/ create_brand(name, slug)
    \/ \E id \in NodeIds, data \in NodeData :
            \/ update_category(id, data)
            \/ update_listing(id, data)
            \/ update_collection(id, data)
            \/ update_brand(id, data)
    \/ \E id \in NodeIds : delete_catalog(id)
    \/ Respond

SpecTree == Init /\ [][NextTree]_vars

TreeErrors ==
    {"ObjectAlreadyExists", "ParentCatalogIsNotCategory", "ParentCatalogIsNotListing"}

\* C24: no two catalog nodes share the same (slug, parent), every
\* collection's parent is a listing, every category's or listing's parent is
\* absent or a category, and a call that fails with ObjectAlreadyExists,
\* ParentCatalogIsNotCategory or ParentCatalogIsNotListing has changed nothing.
C24_CatalogStructure ==
    /\ \A a, b \in NodeIds :
           (a # b /\ Live(a) /\ Live(b)) =>
               <<catalog[a].slug, catalog[a].parent>>
                   # <<catalog[b].slug, catalog[b].parent>>
    /\ \A id \in NodeIds :
           catalog[id].object_class = "collection" =>
               /\ catalog[id].parent # 0
               /\ catalog[catalog[id].parent].object_class = "listing"
    /\ \A id \in NodeIds :
           (catalog[id].object_class \in {"category", "listing"}
                /\ catalog[id].parent # 0) =>
               catalog[catalog[id].parent].object_class = "category"
    /\ (call.op # "none" /\ call.error \in TreeErrors) => catalog = call.before

\* C28: after a successful update_collection(id, data) on a collection, the
\* collection read from the store has the name, slug and parent of the
\* object it returned.
C28_UpdateCollectionDurable ==
    (call.op = "update_collection" /\ call.error = "none"
        /\ call.returned.object_class = "collection") =>
        catalog[call.id] = call.returned


(***************************************************************************)
(* The three section jobs side by side, with orders between the halves of  *)
(* a job and product edits between two jobs.                               *)
(***************************************************************************)
SectionScripts == {"bestsellers", "best_prices", "promo"}

\* Product edits that decide what the three jobs clear and tag.
SectionData(p) ==
    {[publish |-> b, price |-> product[p].price, discount_percent |-> d,
      listing |-> CHOOSE l \in Listings : l \in product[p].tags] :
        b \in BOOLEAN, d \in {0, MaxDiscount}}

NextSections ==
    \/ \E script \in SectionScripts : StartScript(script)
    \/ update_bestsellers_products_clear
    \/ update_bestsellers_products_tag
    \/ update_best_prices_products_clear
    \/ update_best_prices_products_tag
    \/ set_promo_tag_clear
    \/ set_promo_tag_tag
    \/ \E p \in Products : CreateNewOrderByOneClick(p)
    \/ \E p \in Products : \E data \in SectionData(p) : update_product(p, data)

SpecSections == Init /\ [][NextSections]_vars

\* The job has finished its clearing loop and has not started its tagging
\* loop.
BetweenLoops ==
    /\ job.script \in SectionScripts
    /\ job.pc \in {"bestsellers_tag", "best_prices_tag", "promo_tag"}

\* C25: a section job is not atomic: between its clearing loop and its
\* tagging loop the store is in a state any reader can see, in which no
\* published product carries the section tag and the tag has been re-added
\* to no product (whoever carries it carried it before the job started).
C25_JobsNotAtomic ==
    BetweenLoops =>
        /\ Tagged(SectionTag(job.script)) \cap Published = {}
        /\ Tagged(SectionTag(job.script)) \subseteq job.before

\* A job is between its loops, a published product that carried the section
\* tag before the job carries it no longer, and the tagging loop is going to
\* tag a product.
C25_Witness ==
    /\ BetweenLoops
    /\ \E p \in Published \cap job.before : SectionTag(job.script) \notin product[p].tags
    /\ \/ job.script = "promo" /\ Discounted # {}
       \/ job.script = "best_prices" /\ BestPriceCandidates # {}
       \/ job.script = "bestsellers" /\ BestsellerCandidates # {}


(***************************************************************************)
(* One update_index() of the weekly job and one index_counter_increment of *)
(* a request on the same row.  Each loads the row into an instance and     *)
(* save()s the instance; save() writes every field of the instance over    *)
(* the row.  update_index() saves twice: the index, then the rotated       *)
(* counters.  Increments and update_index() calls that run alone come      *)
(* first and give the row its counters (f, s, t).                          *)
(***************************************************************************)
TxnFrame ==
    UNCHANGED <<ops, requestVars, storeVars, product_attribute, reviews,
                product_in_shop, product_day, today, call,
                index_table, owner, catalog, order, ordered>>

TxnStarted == txn.row # NoRow

\* Calls that run alone, before the pair starts.
AloneBefore ==
    /\ ~TxnStarted
    /\ \/ \E r \in CoreRows, count \in RequestAmounts : index_counter_increment(r, count)
       \/ \E r \in CoreRows : update_index(r)

\* product.popular of update_products_popularity_indexes: the row is read.
UpdateIndexLoad(r) ==
    /\ txn.job_pc = "idle"
    /\ TxnStarted => r = txn.row
    /\ txn' = [txn EXCEPT !.row = r,
                          !.start = IF TxnStarted THEN @ ELSE ranking[r],
                          !.job_pc = "loaded",
                          !.job_loaded = ranking[r]]
    /\ UNCHANGED rankingVars
    /\ TxnFrame

\* First save() of update_index: the new index, with the counters as loaded.
UpdateIndexSaveIndex ==
    /\ txn.job_pc = "loaded"
    /\ ranking' = [ranking EXCEPT
                      ![txn.row] = [index |-> WeightedIndex(txn.job_loaded.index_counter),
                                    index_counter |-> txn.job_loaded.index_counter]]
    /\ txn' = [txn EXCEPT !.job_pc = "index_saved"]
    /\ UNCHANGED hist
    /\ TxnFrame

\* Second save() of update_index, in _update_index_counters: the counters of
\* the instance, rotated.
UpdateIndexSaveCounters ==
    /\ txn.job_pc = "index_saved"
    /\ ranking' = [ranking EXCEPT ![txn.row] = UpdatedRow(txn.job_loaded)]
    /\ hist' = [hist EXCEPT ![txn.row] = HistAfterUpdate(@)]
    /\ txn' = [txn EXCEPT !.job_pc = "done"]
    /\ TxnFrame

\* instance.popular of a request: the row is read.
IncrementLoad(r, count) ==
    /\ txn.inc_pc = "idle"
    /\ TxnStarted => r = txn.row
    /\ txn' = [txn EXCEPT !.row = r,
                          !.start = IF TxnStarted THEN @ ELSE ranking[r],
                          !.inc_pc = "loaded",
                          !.inc_loaded = ranking[r],
                          !.count = count]
    /\ UNCHANGED rankingVars
    /\ TxnFrame

\* index_counter_increment on the loaded instance, and its save().
IncrementSave ==
    /\ txn.inc_pc = "loaded"
    /\ ranking' = [ranking EXCEPT ![txn.row] = IncrementedRow(txn.inc_loaded, txn.count)]
    /\ hist' = [hist EXCEPT ![txn.row] = HistAfterIncrement(ranking'[txn.row])]
    /\ txn' = [txn EXCEPT !.inc_pc = "done"]
    /\ TxnFrame

NextSerial ==
    \/ AloneBefore
    \/ \E r \in CoreRows : UpdateIndexLoad(r)
    \/ UpdateIndexSaveIndex
    \/ UpdateIndexSaveCounters
    \/ \E r \in CoreRows, count \in RequestAmounts : IncrementLoad(r, count)
    \/ IncrementSave

SpecSerial == Init /\ [][NextSerial]_vars

\* C26: update_index() and index_counter_increment(n) on the same row are
\* serializable: once both have made their last save, the counters of the
\* row, which were (f, s, t) before the two, are (0, f+n, s), the increment
\* first, or (n, f, s), update_index() first.
C26_Serializable ==
    (txn.job_pc = "done" /\ txn.inc_pc = "done") =>
        Counter(txn.row) \in
            {RotatedCounter(IncrementedRow(txn.start, txn.count).index_counter),
             IncrementedRow(UpdatedRow(txn.start), txn.count).index_counter}


(***************************************************************************)
(* Order placements by two workers.  reduce_quantity_for_product loads the *)
(* product, computes the new quantity in memory and save()s the instance;  *)
(* the other worker may run between the load and the save.                 *)
(***************************************************************************)
OrderFrame ==
    UNCHANGED <<ops, requestVars, job, product_attribute, reviews,
                product_in_shop, product_day, today, call,
                index_table, owner, catalog, txn>>

\* Units of one cart line; a one-click order is an order of one unit.
OrderAmounts == 1 .. MaxAmount

\* Product.get_product_by_pk(product_id) of reduce_quantity_for_product, in a
\* cart order of amount units of the product or in a one-click order.
OrderLoad(w, p, amount) ==
    /\ order[w].pc = "idle"
    /\ ordered[p] + amount <= MaxCount + MaxAmount
    /\ order' = [order EXCEPT ![w] = [pc |-> "loaded", product |-> p,
                                      amount |-> amount,
                                      loaded |-> product[p].quantity]]
    /\ ordered' = [ordered EXCEPT ![p] = @ + amount]
    /\ UNCHANGED <<rankingVars, product>>
    /\ OrderFrame

\* The rest of the order: quantity = max(quantity - amount, 0) on the loaded
\* instance, product.save(), and the sales index of the product is
\* incremented by the amount.
OrderSave(w) ==
    /\ order[w].pc = "loaded"
    /\ LET p == order[w].product
           sales == <<p, "sales">>
       IN  /\ product' = [product EXCEPT
                            ![p].quantity = ReducedQuantity(order[w].loaded,
                                                            order[w].amount)]
           /\ ranking' = [ranking EXCEPT ![sales] = IncrementedRow(@, order[w].amount)]
           /\ hist' = [hist EXCEPT ![sales] = HistAfterIncrement(ranking'[sales])]
    /\ order' = [order EXCEPT ![w] = OrderIdle]
    /\ UNCHANGED ordered
    /\ OrderFrame

NextOrders ==
    \/ \E w \in Workers, p \in Products, amount \in OrderAmounts : OrderLoad(w, p, amount)
    \/ \E w \in Workers : OrderSave(w)

SpecOrders == Init /\ [][NextOrders]_vars

\* C30: once the orders placed on a product have all saved, the quantity of
\* the product is not negative and equals max(q - units ordered, 0), q being
\* its quantity before the orders; no decrement is lost when two orders
\* overlap.
C30_StockAccounting ==
    \A p \in Products :
        (\A w \in Workers : ~(order[w].pc = "loaded" /\ order[w].product = p)) =>
            /\ product[p].quantity >= 0
            /\ product[p].quantity = ReducedQuantity(InitialQuantity, ordered[p])


\* C27: when get_products_by_filter fails because an attribute slug of the
\* filter is not configured for the listing, the call has changed no row of
\* ranking_index: no ListingAttribute popularity counter, the counters of
\* the valid attributes that precede the unknown one included.
C27_FilterErrorChangesNothing ==
    (call.op = "get_products_by_filter" /\ call.error # "none"
        /\ ~Configured(call.listing, call.attributes) /\ call.streak = 1) =>
        ranking = call.before


(***************************************************************************)
(* The discounted price of the price-range filter and of the cheap and     *)
(* expensive sorts, next to Product.discounted_price.  Prices are integers *)
(* of hundredths and percents integers of tenths, as above; the annotation *)
(* is kept exact as a number of PercentDen-ths of a hundredth.             *)
(***************************************************************************)
\* Tenths of a percent in the whole.
PercentDen == 100 * PercentScale

\* annotate(_discounted_price=F("price") * (100 - F("discount_percent")) / 100),
\* multiplied by PercentDen.
annotated_discounted_price(price, discount_percent) ==
    price * (PercentDen - discount_percent)

\* Q(_discounted_price__gte=min, _discounted_price__lte=max) for a range in
\* whole units.
InPriceRange(price, discount_percent, range_value) ==
    /\ range_value.min * PriceScale * PercentDen
            <= annotated_discounted_price(price, discount_percent)
    /\ annotated_discounted_price(price, discount_percent)
            <= range_value.max * PriceScale * PercentDen

\* Ranges around 1, 900 and 1000 whole units.
ConsistencyRanges == {Range(0, 1), Range(1, 899), Range(900, 1000)}

\* A product with the given price and percent goes through the price filter
\* with one range and is serialized for the customer.
filter_and_show_price(price, discount_percent, range_value) ==
    /\ call.op \in {"none", "filter_and_show_price"}
    /\ call' = [op |-> "filter_and_show_price", price |-> price,
                discount_percent |-> discount_percent,
                range_value |-> range_value,
                annotated |-> annotated_discounted_price(price, discount_percent),
                kept |-> InPriceRange(price, discount_percent, range_value),
                shown |-> discounted_price(price, discount_percent)]
    /\ UNCHANGED <<ranking, hist, ops, requestVars, storeVars,
                   product_attribute, reviews, product_in_shop, product_day,
                   today, tableVars>>

NextPriceConsistency ==
    \/ \E price \in DiscountPrices, discount_percent \in DiscountPercents,
          range_value \in ConsistencyRanges :
            filter_and_show_price(price, discount_percent, range_value)
    \/ Respond

SpecPriceConsistency == Init /\ [][NextPriceConsistency]_vars

\* C29: the discounted price the price filter and the cheap/expensive sorts
\* compute for a product equals its discounted_price property, so the
\* product is kept for a range [min, max] if and only if the discounted
\* price shown to the customer lies in [min, max].
C29_PriceConsistency ==
    call.op = "filter_and_show_price" =>
        /\ call.annotated = call.shown * PercentDen
        /\ call.kept <=>
                /\ call.range_value.min * PriceScale <= call.shown
                /\ call.shown <= call.range_value.max * PriceScale

====
